---- MODULE Spec2Model ----
(***************************************************************************)
(* A model of the FPDF document object of mosegui/pyfpdf (src/fpdf).       *)
(*                                                                         *)
(* The document is modelled as a record `d` holding the fields of the FPDF *)
(* object; every method is an operator from a document record to a         *)
(* document record, so that nested calls (cell -> add_page -> footer ->    *)
(* cell ...) compose as they do in the code.  The module's variables are   *)
(* the fields of the object, and every public method is one action.        *)
(*                                                                         *)
(* Abstractions:                                                           *)
(*  - lengths are in integer user units with unit 'pt' (scale 1);          *)
(*  - a string written by one _out() call is a record `line`:              *)
(*    op names the operator written, arg its numeric operands and `by`     *)
(*    (instrumentation) who issued the call; the length of the string is   *)
(*    LineLen(line);                                                        *)
(*  - colours are numbers: 0 is the initial gray '0 G' / '0 g', k > 0 an   *)
(*    RGB colour string;                                                    *)
(*  - a font style is the sequence of its letters.                          *)
(***************************************************************************)
EXTENDS Integers, Sequences, FiniteSets, Bags, TLC

\* ------------------------------------------------------------------ bounds
MaxCalls == 3
MaxImageCalls == 4
MaxLinkCalls == 5
MaxLinks == 2
MaxCid == 129
MaxTextLen == 4
\* the last code point of the TrueType fonts
MaxUni == 257

\* ------------------------------------------------------ program constants
\* Lengths are whole numbers: the document is built with unit 'pt' and the
\* format (FileWidth, FileHeight); the default margin 28.35/scale and the
\* line width .567/scale are taken as the whole values of a page of that size.
Scale == 1
FileWidth == 6
FileHeight == 8
Margin == 1
LineWidthInit == 1
FontSizeInit == 12
StretchInit == 100
ColorInit == 0
\* the cell margin 2.835/scale, taken as a whole value as the page margin is
CellMargin == 1
\* word spacings are whole numbers of WsUnit-ths of a thousandth of the unit
\* of length, which makes the quotient by the count of spaces of a line exact
WsUnit == 6

\* --------------------------------------------------------------- inputs
\* the first code point of the TrueType fonts that has a width; the last one
\* is MaxUni
FirstCid == 252
Orientations == {""}
Hooks == {"noop", "busy"}
TxtNone == 0
TxtPlain == 1
TxtAlias == 2
TxtNb(nb) == 10 + nb

\* the 14 core fonts that the modelled families can select
core_fonts ==
  { <<f, s>> : f \in {"courier", "helvetica", "times"},
               s \in {<<>>, <<"B">>, <<"I">>, <<"B", "I">>} }
  \cup { <<"symbol", <<>> >>, <<"zapfdingbats", <<>> >> }

\* ---------------------------------------------------------------- lines
Digits(k) == IF k < 0 THEN 2 ELSE IF k < 10 THEN 1 ELSE IF k < 100 THEN 2 ELSE IF k < 1000 THEN 3 ELSE 4

\* the numbers of a, each written out and followed by a space: the sum of the
\* lengths, taken as the cardinality of the bag that holds number i that many times
SumDigits(a) == BagCardinality([i \in 1..Len(a) |-> Digits(a[i]) + 1])

\* length of the string one _out() call formats
LineLen(l) ==
  CASE l.op = "data" -> l.arg[1]
    [] l.op = "obj" -> Digits(l.arg[1]) + 6
    [] l.op = "endobj" -> 6
    [] l.op = "xrefentry" -> 19
    [] l.op \in {"cell", "text"} ->
         (IF l.arg[1] = TxtNone THEN 0
          ELSE IF l.arg[1] = TxtPlain THEN 5
          ELSE IF l.arg[1] = TxtAlias THEN 9
          ELSE 5 + Digits(l.arg[1] - 10)) + SumDigits(Tail(l.arg)) + 8
    [] OTHER -> 4 + SumDigits(l.arg)

\* len() of a string made of lines, each followed by "\n": the sum of the
\* lengths, taken as the cardinality of the bag that holds line i
\* LineLen + 1 times
StrLen(s) == BagCardinality([i \in 1..Len(s) |-> LineLen(s[i]) + 1])

\* len(zlib.compress(p)) for a string of length len: header and checksum
\* plus a deflate body shorter than the input
ZLen(len) == 8 + (len + 1) \div 2

\* the string handed to _out, as a line
FormatString(d, op, arg) == [op |-> op, by |-> d.who, arg |-> arg]

\* _out: the open page's content while a page is being written, the buffer
\* otherwise; buflen is len(self.buffer), kept as the buffer grows
Out(d, op, arg) ==
  IF d.state = "WRITING_PAGE"
  THEN [d EXCEPT !.pages[d.current_page].content = Append(@, FormatString(d, op, arg))]
  ELSE [d EXCEPT !.buffer = Append(@, FormatString(d, op, arg)),
                 !.buflen = @ + LineLen(FormatString(d, op, arg)) + 1]

\* the strings handed to _out by consecutive calls, ls giving <<op, arg>> of each
Lines(d, ls) == [i \in 1..Len(ls) |-> FormatString(d, ls[i][1], ls[i][2])]

\* _out called once for each element of ls, in order
OutAll(d, ls) ==
  IF d.state = "WRITING_PAGE"
  THEN [d EXCEPT !.pages[d.current_page].content = @ \o Lines(d, ls)]
  ELSE [d EXCEPT !.buffer = @ \o Lines(d, ls), !.buflen = @ + StrLen(Lines(d, ls))]

\* assignment to self.state, with the transition recorded
SetState(d, s) ==
  [d EXCEPT !.state = s,
            !.hist = IF d.state = s THEN @ ELSE @ \cup {<<d.state, s>>}]

Raise(d, e) == [d EXCEPT !.raised = e]

\* instrumentation: an entry of the event log
Log(d, tag, page) == [d EXCEPT !.log = Append(@, <<tag, page>>)]

\* one statement after the other: the value of the single element of S, a set
\* written { step2(r) : r \in { step1(d) } }, so that step1 has run to its
\* end before step2 starts
Then(S) == CHOOSE r \in S : TRUE

\* ------------------------------------------------------- graphics state
HasU(st) == \E i \in 1..Len(st) : st[i] = "U"
IsNotU(c) == c # "U"
DropU(st) == SelectSeq(st, IsNotU)

\* FontSettings.__init__ applied to the current settings
get_font_settings(d) ==
  [font_family |-> d.settings.font_family,
   font_style |-> IF d.settings.underline THEN Append(d.settings.font_style, "U")
                  ELSE d.settings.font_style,
   underlined |-> d.settings.underline,
   font_size |-> d.settings.font_size_pt,
   line_width |-> d.settings.line_width,
   draw_color |-> d.settings.draw_color,
   fill_color |-> d.settings.fill_color,
   text_color |-> d.settings.text_color,
   color_flag |-> d.settings.color_flag,
   font_stretching |-> d.settings.font_stretching]

\* _out of a line by a setter, which writes only once a page exists
OutIfPage(d, op, arg) == IF d.current_page > 0 THEN Out(d, op, arg) ELSE d

set_draw_color(d, c) == OutIfPage([d EXCEPT !.settings.draw_color = c], "RG", <<c>>)

set_fill_color(d, c) ==
  OutIfPage([d EXCEPT !.settings.fill_color = c,
                      !.settings.color_flag = (c # d.settings.text_color)], "rg", <<c>>)

set_text_color(d, c) ==
  [d EXCEPT !.settings.text_color = c,
            !.settings.color_flag = (d.settings.fill_color # c)]

set_line_width(d, width) ==
  OutIfPage([d EXCEPT !.settings.line_width = width], "w", <<width * Scale>>)

set_stretching(d, factor) ==
  IF d.settings.font_stretching = factor THEN d
  ELSE OutIfPage([d EXCEPT !.settings.font_stretching = factor], "Tz", <<factor>>)

\* set_font: the family, lower case, '' standing for the current one
FontFamily(d, family_in) ==
  IF family_in = "" THEN d.settings.font_family
  ELSE IF family_in = "arial" THEN "helvetica" ELSE family_in

\* set_font: the style asked for, dropped for the two symbolic fonts
FontStyleIn(fam, style_in) ==
  IF fam \in {"symbol", "zapfdingbats"} THEN <<>> ELSE style_in

\* set_font: the style without 'U', with 'IB' written 'BI'
FontStyle(st0) == IF DropU(st0) = <<"I", "B">> THEN <<"B", "I">> ELSE DropU(st0)

\* set_font: size 0 stands for the current size
FontSize(d, size_in) == IF size_in = 0 THEN d.settings.font_size_pt ELSE size_in

\* set_font: a core font used for the first time is entered in self.fonts
add_core_font(d, fontkey) ==
  IF fontkey \in DOMAIN d.fonts THEN d
  ELSE [d EXCEPT !.fonts = @ @@ (fontkey :>
           [i |-> Cardinality(DOMAIN d.fonts) + 1, type |-> "core", n |-> 0])]

\* add_font: the key of the font, 'arial' standing for 'helvetica' and the
\* style 'IB' for 'BI'
FontKey(font_family, font_style) ==
  <<IF font_family = "arial" THEN "helvetica" ELSE font_family,
    IF font_style = <<"I", "B">> THEN <<"B", "I">> ELSE font_style>>

\* add_font: the number of an encoding difference, that of the first equal
\* one of self.diffs or the next free number
DiffIndex(d, diff) ==
  IF \E k \in 1..Len(d.diffs) : d.diffs[k] = diff
  THEN CHOOSE k \in 1..Len(d.diffs) :
         d.diffs[k] = diff /\ \A j \in 1..(k - 1) : d.diffs[j] # diff
  ELSE Len(d.diffs) + 1

\* add_font: self.font_files[filename] = info
SetFontFile(d, filename, info) ==
  IF \E k \in 1..Len(d.font_files) : d.font_files[k].name = filename
  THEN [d EXCEPT !.font_files = [k \in 1..Len(@) |->
          IF @[k].name = filename THEN [@[k] EXCEPT !.info = info] ELSE @[k]]]
  ELSE [d EXCEPT !.font_files = Append(@, [name |-> filename, info |-> info])]

\* add_font without uni, of a font whose definition file holds font_dict:
\* the font is entered in self.fonts with the entries of font_dict, its
\* encoding difference in self.diffs and the file named by 'filename' in
\* self.font_files
add_font(d, font_family, font_style, font_dict) ==
  LET key == FontKey(font_family, font_style)
      d1 == [d EXCEPT !.fonts = @ @@ (key :>
               ([i |-> Cardinality(DOMAIN d.fonts) + 1, n |-> 0] @@ font_dict))]
      d2 == IF "diff" \in DOMAIN font_dict /\ font_dict.diff # ""
            THEN [d1 EXCEPT !.diffs = IF DiffIndex(d, font_dict.diff) > Len(@)
                                      THEN Append(@, font_dict.diff) ELSE @,
                            !.fonts[key].diff = DiffIndex(d, font_dict.diff)]
            ELSE d1
  IN IF key \in DOMAIN d.fonts THEN d
     ELSE IF font_dict.filename = "" THEN d2
     ELSE SetFontFile(d2, font_dict.filename,
                      IF font_dict.type = "TrueType"
                      THEN [length1 |-> font_dict.originalsize]
                      ELSE [length1 |-> font_dict.size1, length2 |-> font_dict.size2])

\* set_font: the font is made the current one
select_font(d, fam, st, sz) ==
  OutIfPage([d EXCEPT !.settings.font_family = fam,
                      !.settings.font_style = st,
                      !.settings.font_size_pt = sz,
                      !.font_size = sz \div Scale,
                      !.current_font = <<fam, st>>,
                      !.unifontsubset = "no"],
            "Tf", <<d.fonts[<<fam, st>>].i, sz>>)

\* set_font after the underline flag is set: nothing to do for the font
\* already selected, an error for a font that is neither added nor a core font
set_font_key(d, fam, st, sz) ==
  IF d.settings.font_family = fam /\ d.settings.font_style = st
     /\ d.settings.font_size_pt = sz
  THEN d
  ELSE IF <<fam, st>> \notin DOMAIN d.fonts /\ <<fam, st>> \notin core_fonts
  THEN Raise(d, "CatchAllError")
  ELSE select_font(add_core_font(d, <<fam, st>>), fam, st, sz)

set_font(d, family_in, style_in, size_in) ==
  set_font_key([d EXCEPT !.settings.underline =
                   HasU(FontStyleIn(FontFamily(d, family_in), style_in))],
               FontFamily(d, family_in),
               FontStyle(FontStyleIn(FontFamily(d, family_in), style_in)),
               FontSize(d, size_in))

\* set_font_settings: the font is restored only if one had been selected
restore_font(d, fs) ==
  IF fs.font_family # ""
  THEN set_font(d, fs.font_family, fs.font_style, fs.font_size)
  ELSE d

\* set_font_settings: a colour is written out unless it is the default one
OutIfColor(d, op, c) == IF c # ColorInit THEN Out(d, op, <<c>>) ELSE d

restore_colors(d, fs) ==
  [OutIfColor([OutIfColor([d EXCEPT !.settings.draw_color = fs.draw_color],
                          "RG", fs.draw_color)
                 EXCEPT !.settings.fill_color = fs.fill_color],
              "rg", fs.fill_color)
     EXCEPT !.settings.text_color = fs.text_color,
            !.settings.color_flag = fs.color_flag]

set_font_settings(d, fs) ==
  Then({ set_stretching(restore_colors(r, fs), fs.font_stretching) :
         r \in {restore_font(Out([d EXCEPT !.settings.line_width = fs.line_width],
                                 "w", <<fs.line_width * Scale>>), fs)} })

set_y(d, yy) ==
  [d EXCEPT !.x = Margin,
            !.y = IF yy >= 0 THEN yy ELSE d.settings.height_unit + yy]

\* ---------------------------------------------------------------- links
\* add_link: a new internal link, whose number is returned
add_link(d) == [d EXCEPT !.links = Append(@, <<0, 0>>), !.ret = <<Len(d.links) + 1>>]

\* set_link: the destination of an internal link, y = -1 standing for the
\* current ordinate and page = -1 for the current page
set_link(d, lnk, yy, page) ==
  [d EXCEPT !.links[lnk] = <<IF page = -1 THEN d.current_page ELSE page,
                             IF yy = -1 THEN d.y ELSE yy>>]

\* link: a link area on the current page; lnk is the number of an internal
\* link (str false) or a URI (str true)
link(d, xx, yy, w, h, lnk) ==
  [d EXCEPT !.page_links =
     (d.current_page :>
        ((IF d.current_page \in DOMAIN d.page_links THEN d.page_links[d.current_page]
          ELSE <<>>)
         \o << <<xx * Scale, d.settings.height_points - yy * Scale, w * Scale, h * Scale,
                 lnk>> >>)) @@ @]

\* ------------------------------------------------------- page lifecycle
\* set_page_format('') followed by set_page_orientation(page_orientation)
set_page_orientation(d, page_orientation) ==
  LET orientation == IF page_orientation = "" THEN d.settings.def_orientation
                     ELSE page_orientation
  IN IF orientation = "P"
     THEN [d EXCEPT !.settings.width_points = FileWidth * Scale,
                    !.settings.height_points = FileHeight * Scale]
     ELSE [d EXCEPT !.settings.width_points = FileHeight * Scale,
                    !.settings.height_points = FileWidth * Scale]

beginpage(d, page_orientation, same) ==
  LET cp == d.current_page + 1
      d1 == SetState([d EXCEPT !.current_page = cp], "WRITING_PAGE")
      d2 == [d1 EXCEPT !.x = Margin, !.y = Margin,
                       !.settings.font_family = "",
                       !.settings.font_stretching = StretchInit]
      d3 == IF same THEN d2
            ELSE LET o == set_page_orientation(d2, page_orientation)
                 IN [o EXCEPT !.settings.width_unit = o.settings.width_points \div Scale,
                              !.settings.height_unit = o.settings.height_points \div Scale,
                              !.settings.page_break_trigger =
                                  (o.settings.height_points \div Scale) - 2 * Margin]
  IN Log([d3 EXCEPT !.pages = @ @@ (cp :> [content |-> <<>>,
                                             w_pt |-> d3.settings.width_points,
                                             h_pt |-> d3.settings.height_points])],
         "open", cp)

endpage(d) == SetState(d, "OPEN_IDLE")

\* instrumentation: body content was appended to the open page
MarkBody(d) ==
  IF d.raised = "none" /\ d.state = "WRITING_PAGE"
     /\ d.log[Len(d.log)] # <<"body", d.current_page>>
  THEN Log(d, "body", d.current_page)
  ELSE d

RECURSIVE add_page(_, _, _)

\* a page break test that also fires when the element ends on the trigger
BreakReachedOnTrigger(d, h) ==
  d.y + h >= d.settings.page_break_trigger /\ ~d.in_footer /\ d.settings.auto_page_break

\* the automatic page break test of cell(), image() and add_page_if_break_reached()
BreakReached(d, h) ==
  d.y + h > d.settings.page_break_trigger /\ ~d.in_footer /\ d.settings.auto_page_break

\* cell: word spacing is switched off around the automatic page break
TwBefore(d) ==
  IF d.settings.word_spacing > 0
  THEN Out([d EXCEPT !.settings.word_spacing = 0], "Tw", <<0>>) ELSE d

TwAfter(d, ws) ==
  IF ws > 0 THEN Out([d EXCEPT !.settings.word_spacing = ws], "Tw", <<ws * Scale>>) ELSE d

\* instrumentation: cell() has broken the page; d is the object before the
\* break and r after it
Broke(d, r) ==
  [r EXCEPT !.breaks = Append(@, [page |-> r.current_page,
                                  x0 |-> d.x, ws0 |-> d.settings.word_spacing,
                                  x1 |-> r.x, ws1 |-> r.settings.word_spacing,
                                  y1 |-> r.y])]

\* an automatic page break that leaves x and the word spacing to add_page
cell_break_bare(d, h) ==
  IF BreakReached(d, h) THEN Broke(d, add_page(d, "", TRUE)) ELSE d

\* cell: the automatic page break
cell_break(d, h) ==
  IF BreakReached(d, h)
  THEN Broke(d, TwAfter([add_page(TwBefore(d), "", TRUE) EXCEPT !.x = d.x],
                        d.settings.word_spacing))
  ELSE d

\* a cursor that goes back to the left margin with every ln > 0
cell_move_home(d, w, h, ln) ==
  IF ln > 0
  THEN [d EXCEPT !.lasth = h, !.y = @ + h, !.x = Margin]
  ELSE [d EXCEPT !.lasth = h, !.x = @ + w]

\* cell: the cursor after the cell
cell_move(d, w, h, ln) ==
  IF ln > 0
  THEN [d EXCEPT !.lasth = h, !.y = @ + h, !.x = IF ln = 1 THEN Margin ELSE @]
  ELSE [d EXCEPT !.lasth = h, !.x = @ + w]

\* cell: the cell of width w is drawn, if there is anything to draw: the
\* rectangle of fill = 1 or border = 1, the sides of a border string, the text
cell_draw(d, w, h, txt, border, ln, fill) ==
  cell_move(IF fill = 1 \/ border # 0 \/ txt # TxtNone
            THEN Out(d, "cell", <<txt, d.x * Scale, (d.settings.height_unit - d.y) * Scale,
                                  w * Scale, h * Scale, border, fill>>)
            ELSE d,
            w, h, ln)

\* cell: width 0 stands for the width up to the right margin
cell_on_page(d, w_in, h, txt, border, ln, fill) ==
  cell_draw(d, IF w_in = 0 THEN d.settings.width_unit - Margin - d.x ELSE w_in,
            h, txt, border, ln, fill)

\* cell(w, h, txt, border, ln, fill) with align = '' and link = ''
cell(d, w_in, h, txt, border, ln, fill) ==
  IF d.unifontsubset = "unset" THEN Raise(d, "AttributeError")
  ELSE Then({ cell_on_page(r, w_in, h, txt, border, ln, fill) : r \in {cell_break(d, h)} })

\* instrumentation: a callback is entered; the event is logged with the word
\* spacing the callback finds
Hook(d, tag) ==
  Log([d EXCEPT !.hook_ws = @ \cup {<<tag, d.settings.word_spacing>>}], tag, d.current_page)

\* an override of header() in the manner of src/tutorial/tuto2.py: it selects
\* a font, changes colours, line width and stretching and prints a cell
header(d) ==
  [(IF d.header_impl = "noop"
    THEN Hook(d, "hdr")
    ELSE Then({ cell(set_stretching(set_line_width(r2, 2), 150), 3, 2, TxtPlain, 1, 0, 0) :
                r2 \in { set_fill_color(set_draw_color(r1, 2), 2) :
                         r1 \in {set_font(Hook([d EXCEPT !.who = "hdr"], "hdr"),
                                          "arial", <<"B">>, 15)} } }))
     EXCEPT !.who = d.who]

\* an override of footer() in the manner of src/tutorial/tuto2.py: it moves to
\* the bottom, selects an underlined font and a colour and prints the page count
footer(d) ==
  [(IF d.footer_impl = "noop"
    THEN Hook(d, "ftr")
    ELSE Then({ cell(set_text_color(r, 2), 0, 2, TxtAlias, 0, 0, 0) :
                r \in {set_font(set_y(Hook([d EXCEPT !.who = "ftr"], "ftr"), -1),
                                "arial", <<"I", "U">>, 8)} }))
     EXCEPT !.who = d.who]

add_footer(d) ==
  [footer([d EXCEPT !.in_footer = TRUE]) EXCEPT !.in_footer = FALSE]

\* add_page: the first page opens the document
open_document(d) == IF d.state = "UNSTARTED" THEN SetState(d, "OPEN_IDLE") ELSE d

\* add_page: the page that is open gets its footer and is ended
end_open_page(d) == IF d.current_page > 0 THEN endpage(add_footer(d)) ELSE d

\* add_page: the new page is begun, and the settings fs saved at the call are
\* restored before and after header()
begin_new_page(d, fs, orientation, same) ==
  Then({ set_font_settings(r2, fs) :
         r2 \in { header(r1) :
                  r1 \in {set_font_settings(Out(beginpage(d, orientation, same), "J", <<2>>),
                                            fs)} } })

add_page(d, orientation, same) ==
  [Then({ begin_new_page(r, get_font_settings(d), orientation, same) :
          r \in {end_open_page(open_document([d EXCEPT !.started = @ + 1, !.who = "sys"]))} })
     EXCEPT !.who = d.who]

\* ----------------------------------------------------------- serializer
\* a _newobj that records the offset after it has written the token
newobj_late(d) ==
  LET d1 == Out([d EXCEPT !.n = @ + 1], "obj", <<d.n + 1>>)
  IN [d1 EXCEPT !.offsets = (d1.n :> d1.buflen) @@ @]

\* the part of the _newobj context manager before the yield
newobj(d) ==
  Out([d EXCEPT !.n = @ + 1, !.offsets = ((d.n + 1) :> d.buflen) @@ @],
      "obj", <<d.n + 1>>)

\* the part of the _newobj context manager after the yield
endobj(d) == Out(d, "endobj", <<>>)

putstream(d, len) ==
  OutAll(d, << <<"stream", <<>> >>, <<"data", <<len>> >>, <<"endstream", <<>> >> >>)

\* str.replace of the page-count alias in one line of page content
ReplaceAlias(l, nb) ==
  IF l.op = "cell" /\ l.arg[1] = TxtAlias
  THEN [l EXCEPT !.arg = <<TxtNb(nb)>> \o Tail(l.arg)]
  ELSE l

ReplaceAliasIn(content, nb) == [i \in 1..Len(content) |-> ReplaceAlias(content[i], nb)]

\* _out of a line under a condition
OutIf(c, d, op, arg) == IF c THEN Out(d, op, arg) ELSE d

\* _putpages: one annotation of a page whose width is w_pt, as the numbers
\* written for it: the four corners of /Rect, then the object and the
\* ordinate of /Dest, which are 0 0 for a link to a URI
Annot(d, pl, w_pt) ==
  <<pl[1], pl[2], pl[1] + pl[3], pl[2] - pl[4]>>
  \o (IF pl[5].str THEN <<0, 0>>
      ELSE <<1 + 2 * d.links[pl[5].id][1], w_pt - d.links[pl[5].id][2] * Scale>>)

\* _putpages: the numbers of the annotations pls[k], pls[k + 1], ...
RECURSIVE Annots(_, _, _, _)
Annots(d, pls, w_pt, k) ==
  IF k > Len(pls) THEN <<>> ELSE Annot(d, pls[k], w_pt) \o Annots(d, pls, w_pt, k + 1)

\* _putpages: the dictionary of page n_page, in the object just begun
putpagedict(d, n_page, dw_pt, dh_pt) ==
  LET pg == d.pages[n_page]
  IN endobj(OutAll(d, << <<"pagedict", <<>> >>, <<"parent", <<1>> >> >>
                      \o (IF pg.w_pt # dw_pt \/ pg.h_pt # dh_pt
                          THEN << <<"mediabox", <<pg.w_pt, pg.h_pt>> >> >> ELSE <<>>)
                      \o << <<"resources", <<2>> >> >>
                      \o (IF n_page \in DOMAIN d.page_links
                          THEN << <<"annots", Annots(d, d.page_links[n_page], pg.w_pt, 1)>> >>
                          ELSE <<>>)
                      \o << <<"group", <<>> >>, <<"contents", <<d.n + 1>> >> >>))

\* _putpages: len(p) of the content of a page, compressed or not
PageLen(d, pg) ==
  IF d.settings.compress THEN ZLen(StrLen(pg.content)) ELSE StrLen(pg.content)

\* _putpages: the content of a page, in the object just begun
putpagecontent(d, plen) ==
  endobj(putstream(Out(d, "streamdict", <<IF d.settings.compress THEN 1 ELSE 0, plen>>),
                   plen))

\* one pass of the loop of _putpages that writes page n_page and its content
putpage(d, n_page, dw_pt, dh_pt) ==
  Then({ putpagecontent(newobj(r), PageLen(d, d.pages[n_page])) :
         r \in {putpagedict(newobj(d), n_page, dw_pt, dh_pt)} })

RECURSIVE putpagesloop(_, _, _, _, _)
putpagesloop(d, n_page, nb, dw_pt, dh_pt) ==
  IF n_page > nb THEN d
  ELSE Then({ putpagesloop(r, n_page + 1, nb, dw_pt, dh_pt) :
              r \in {putpage(d, n_page, dw_pt, dh_pt)} })

Kids(nb) == [i \in 1..nb |-> 3 + 2 * (i - 1)]

\* _putpages: the page-count alias is replaced in every page
replace_alias(d) ==
  [d EXCEPT !.pages = [p \in DOMAIN @ |->
      IF p \in 1..d.current_page
      THEN [@[p] EXCEPT !.content = ReplaceAliasIn(@, d.current_page)]
      ELSE @[p]]]

\* _putpages: width and height of the default orientation
DefWidth(d) == IF d.settings.def_orientation = "P" THEN FileWidth * Scale ELSE FileHeight * Scale
DefHeight(d) == IF d.settings.def_orientation = "P" THEN FileHeight * Scale ELSE FileWidth * Scale

\* the offset of a reserved object is recorded
setoffset(d, k) == [d EXCEPT !.offsets = (k :> d.buflen) @@ @]

\* _putpages: the pages root
putpagesroot(d, nb) ==
  OutAll(setoffset(d, 1),
         << <<"obj", <<1>> >>, <<"pagesroot", <<>> >>, <<"kids", Kids(nb)>>,
            <<"count", <<nb>> >>, <<"mediabox", <<DefWidth(d), DefHeight(d)>> >>,
            <<"dictend", <<>> >>, <<"endobj", <<>> >> >>)

putpages(d) ==
  Then({ putpagesroot(r2, d.current_page) :
         r2 \in { putpagesloop(r1, 1, d.current_page, DefWidth(d), DefHeight(d)) :
                  r1 \in {replace_alias(d)} } })

\* the font keys ordered by their index i
FontAt(d, i) == CHOOSE key \in DOMAIN d.fonts : d.fonts[key].i = i

\* _putfonts: the object of a core font, whose index is i
putcorefont(d, i) ==
  endobj(OutAll(newobj(d),
                << <<"fontdict", <<>> >>, <<"basefont", <<i>> >>, <<"subtype", <<>> >> >>
                \o (IF FontAt(d, i)[1] \notin {"symbol", "zapfdingbats"}
                    THEN << <<"encoding", <<>> >> >> ELSE <<>>)
                \o << <<"dictend", <<>> >> >>))

\* _putfonts: one Encoding object for each encoding difference
RECURSIVE putdiffs(_, _)
putdiffs(d, i) ==
  IF i > Len(d.diffs) THEN d
  ELSE putdiffs(endobj(Out(newobj(d), "encodingdiff", <<i>>)), i + 1)

\* _putfonts: a font file whose name ends in '.z' is compressed
Compressed(name) == name = "brush.z"

\* _putfonts: the stream object of the font file at position i of
\* self.font_files, in the object just begun
putfontfile(d, i) ==
  LET info == d.font_files[i].info
      d1 == [d EXCEPT !.font_files[i].info = (d.font_files[i].info @@ [n |-> d.n])]
  IN endobj(putstream(
       OutAll(d1, << <<"fontfile", <<info.length1>> >> >>
                  \o (IF Compressed(d.font_files[i].name)
                      THEN << <<"filter", <<>> >> >> ELSE <<>>)
                  \o << <<"length1", <<info.length1>> >> >>
                  \o (IF "length2" \in DOMAIN info
                      THEN << <<"length2", <<info.length2>> >> >> ELSE <<>>)
                  \o << <<"dictend", <<>> >> >>),
       info.length1))

\* _putfonts: the font files are embedded, those of self.font_files that
\* have a 'type' other than 'TTF'
RECURSIVE putfontfiles(_, _)
putfontfiles(d, i) ==
  IF i > Len(d.font_files) THEN d
  ELSE IF "type" \in DOMAIN d.font_files[i].info /\ d.font_files[i].info.type # "TTF"
  THEN putfontfiles(putfontfile(newobj(d), i), i + 1)
  ELSE putfontfiles(d, i + 1)

\* self.font_files[filename]: the entry of a file name, if there is one
HasFontFile(d, filename) == \E k \in 1..Len(d.font_files) : d.font_files[k].name = filename
FontFileOf(d, filename) ==
  d.font_files[CHOOSE k \in 1..Len(d.font_files) : d.font_files[k].name = filename].info

\* _putfonts: the descriptor of an additional font, in the object just
\* begun; self.font_files[filename]['n'] raises KeyError for a file that
\* has no entry or whose entry has no object number
putfontdescriptor(d, font) ==
  IF font.file = "" THEN endobj(Out(d, "descriptor", <<0>>))
  ELSE IF ~HasFontFile(d, font.file) \/ "n" \notin DOMAIN FontFileOf(d, font.file)
  THEN [Raise(d, "KeyError") EXCEPT !.ret = <<"body">>]
  ELSE endobj(Out(d, IF font.type = "Type1" THEN "descriptorfile" ELSE "descriptorfile2",
                  <<FontFileOf(d, font.file).n>>))

\* _putfonts: the font, widths and descriptor objects of an additional
\* Type1 or TrueType font, whose index is i; nf is the number of the last
\* object written before the encodings
putaddedfont(d, i, nf) ==
  LET font == d.fonts[FontAt(d, i)]
      d1 == endobj(OutAll(newobj(d),
               << <<"fontdict", <<>> >>, <<"basefont", <<i>> >>,
                  <<IF font.type = "Type1" THEN "subtypeType1" ELSE "subtypeTrueType", <<>> >>,
                  <<"firstlast", <<>> >>, <<"widthsref", <<d.n + 2>> >>,
                  <<"descriptorref", <<d.n + 3>> >> >>
               \o (IF ~font.enc THEN <<>>
                   ELSE IF "diff" \in DOMAIN font
                   THEN << <<"encodingref", <<nf + font.diff>> >> >>
                   ELSE << <<"encoding", <<>> >> >>)
               \o << <<"dictend", <<>> >> >>))
      d2 == endobj(Out(newobj(d1), "widths", <<>>))
  IN putfontdescriptor(newobj(d2), font)

RECURSIVE putfontsloop(_, _, _)
putfontsloop(d, nf, i) ==
  IF i > Cardinality(DOMAIN d.fonts) \/ d.raised # "none" THEN d
  ELSE Then({ putfontsloop(r, nf, i + 1) :
              r \in {IF d.fonts[FontAt(d, i)].type = "core"
                     THEN putcorefont([d EXCEPT !.fonts[FontAt(d, i)].n = d.n + 1], i)
                     ELSE putaddedfont([d EXCEPT !.fonts[FontAt(d, i)].n = d.n + 1], i, nf)} })

\* _putfonts for a document whose fonts are core fonts and the Type1 and
\* TrueType fonts of add_font
putfonts(d) ==
  Then({ putfontsloop(r2, d.n, 1) :
         r2 \in { putfontfiles(r1, 1) : r1 \in {putdiffs(d, 1)} } })

ImageAt(d, i) == CHOOSE name \in DOMAIN d.images : d.images[name].i = i

\* _putimage: info['masked']['n'] of an image with a mask; the mask is named
\* when it is an image of the document, which has its object by now
HasMask(info) == "masked" \in DOMAIN info
MaskHasN(d, info) == info.masked \in DOMAIN d.images

\* _putimage: the image object up to its height, where the object of the
\* mask is looked up
putimagehead(d, name, info) ==
  OutAll([d EXCEPT !.images[name].n = d.n],
         << <<"xobject", <<>> >>, <<"subtype", <<>> >>, <<"width", <<info.w>> >>,
            <<"height", <<info.h>> >> >>)

\* _putimage: the image object from the mask on
putimagetail(d, info) ==
  endobj(putstream(
    OutAll(d, (IF HasMask(info) THEN << <<"smask", <<d.images[info.masked].n + 1>> >> >>
               ELSE <<>>)
              \o << <<"colorspace", <<>> >>, <<"bpc", <<8>> >>,
                    <<"filter", <<>> >>, <<"length", <<info.w * info.h>> >> >>),
    info.w * info.h))

\* an image object that is ended when its body raises
putimagedict_ended(d, name, info) ==
  IF HasMask(info) /\ ~MaskHasN(d, info)
  THEN endobj([Raise(putimagehead(d, name, info), "KeyError") EXCEPT !.ret = <<"body">>])
  ELSE putimagetail(putimagehead(d, name, info), info)

\* _putimage: the image object, in the object just begun; ret tells that
\* the body of an object raised
putimagedict(d, name, info) ==
  IF HasMask(info) /\ ~MaskHasN(d, info)
  THEN [Raise(putimagehead(d, name, info), "KeyError") EXCEPT !.ret = <<"body">>]
  ELSE putimagetail(putimagehead(d, name, info), info)

\* _putimage for an image without soft mask or palette
putimage(d, name) ==
  IF ~d.images[name].data THEN d
  ELSE putimagedict(newobj(d), name, d.images[name])

RECURSIVE putimagesloop(_, _)
putimagesloop(d, i) ==
  IF i > Cardinality(DOMAIN d.images) \/ d.raised # "none" THEN d
  ELSE IF ~d.images[ImageAt(d, i)].data THEN Raise(d, "KeyError")
  ELSE Then({ putimagesloop(r, i + 1) :
              r \in {[putimage(d, ImageAt(d, i)) EXCEPT !.images[ImageAt(d, i)].data = FALSE]} })

putimages(d) == putimagesloop(d, 1)

\* _putxobjectdict: one entry for each image, in the order of their index
xobjectdict(d) ==
  [i \in 1..Cardinality(DOMAIN d.images) |-> <<"I", <<i, d.images[ImageAt(d, i)].n>> >>]

\* _putresourcedict: one entry for each font, in the order of their index
fontrefs(d) ==
  [i \in 1..Cardinality(DOMAIN d.fonts) |-> <<"F", <<i, d.fonts[FontAt(d, i)].n>> >>]

putresourcedict(d) ==
  OutAll(d, << <<"procset", <<>> >>, <<"fontopen", <<>> >> >> \o fontrefs(d)
            \o << <<"dictend", <<>> >>, <<"xobjectopen", <<>> >> >> \o xobjectdict(d)
            \o << <<"dictend", <<>> >> >>)

\* _putresources: the resource dictionary, object 2
putresourcesobj(d) ==
  IF d.raised # "none" THEN d
  ELSE OutAll(putresourcedict(OutAll(setoffset(d, 2),
                                     << <<"obj", <<2>> >>, <<"dictopen", <<>> >> >>)),
              << <<"dictend", <<>> >>, <<"endobj", <<>> >> >>)

putresources(d) ==
  Then({ putresourcesobj(r2) : r2 \in { putimages(r1) : r1 \in {putfonts(d)} } })

putinfo(d) == OutAll(d, << <<"producer", <<>> >>, <<"creationdate", <<>> >> >>)

putcatalog(d) ==
  OutAll(d, << <<"catalog", <<>> >>, <<"pages", <<1>> >>, <<"openaction", <<3>> >>,
               <<"pagelayout", <<>> >> >>)

puttrailer(d) ==
  OutAll(d, << <<"size", <<d.n + 1>> >>, <<"root", <<d.n>> >>, <<"info", <<d.n - 1>> >> >>)

\* _enddoc: one cross-reference entry for each object 1..n
xrefloop(d) == [i \in 1..d.n |-> <<"xrefentry", <<d.offsets[i]>> >>]

\* _enddoc: the info dictionary and the catalog
putinfoobj(d) == endobj(Out(putinfo(Out(newobj(d), "dictopen", <<>>)), "dictend", <<>>))
putcatalogobj(d) == endobj(Out(putcatalog(Out(newobj(d), "dictopen", <<>>)), "dictend", <<>>))

\* _enddoc: the cross-reference table, the trailer and the end of the file
putxref(d) ==
  OutAll(puttrailer(OutAll(d, << <<"xref", <<>> >>, <<"xrefcount", <<d.n + 1>> >>,
                                 <<"xreffree", <<>> >> >> \o xrefloop(d)
                              \o << <<"trailer", <<>> >>, <<"dictopen", <<>> >> >>)),
         << <<"dictend", <<>> >>, <<"startxref", <<>> >>, <<"xrefpos", <<d.buflen>> >>,
            <<"eof", <<>> >> >>)

\* _enddoc after the pages and the resources, unless these raised
endfile(d) ==
  IF d.raised # "none" THEN d
  ELSE Then({ SetState(putxref(r2), "TERMINATED") :
              r2 \in { putcatalogobj(r1) : r1 \in {putinfoobj(d)} } })

enddoc(d) ==
  [Then({ endfile(r2) :
          r2 \in { putresources(r1) :
                   r1 \in {putpages(Out([d EXCEPT !.who = "doc"], "pdfheader", <<>>))} } })
     EXCEPT !.who = d.who]

\* a close that does not return early on a terminated document
close_again(d) ==
  Then({ enddoc(Log(endpage(r2), "ser", 0)) :
         r2 \in { add_footer(r1) :
                  r1 \in {IF d.current_page = 0 THEN add_page(d, "", FALSE) ELSE d} } })

close(d) ==
  IF d.state = "TERMINATED" THEN d
  ELSE Then({ enddoc(Log(endpage(r2), "ser", 0)) :
              r2 \in { add_footer(r1) :
                       r1 \in {IF d.current_page = 0 THEN add_page(d, "", FALSE) ELSE d} } })

\* ------------------------------------------------------------- drawing
\* text(x, y, txt) with a non-empty txt
text(d, xx, yy, txt) ==
  IF d.unifontsubset = "unset" THEN Raise(d, "AttributeError")
  ELSE Out(d, "text", <<txt, xx * Scale, (d.settings.height_unit - yy) * Scale,
                        IF d.settings.underline THEN 1 ELSE 0,
                        IF d.settings.color_flag THEN d.settings.text_color ELSE 0>>)

\* ln(h) with a numeric h
ln(d, h) == [d EXCEPT !.x = Margin, !.y = @ + h]

\* rotate(angle) about the current position
rotate(d, angle) ==
  OutIf(angle # 0,
        [OutIf(d.settings.angle # 0, d, "Q", <<>>) EXCEPT !.settings.angle = angle],
        "cm", <<angle, d.x * Scale, (d.settings.height_unit - d.y) * Scale>>)

\* ------------------------------------------------------------ multi_cell
\* A text is the sequence of its characters. A border string is the sum of
\* the codes of its letters, the border 1 is 1 and no border is 0.
NL == "\n"
CR == "\r"
SideL == 2
SideR == 4
SideT == 8
SideB == 16
HasSide(b, side) == (b \div side) % 2 = 1

\* helpers.substr(string, start, length)
substr(string, start, length) ==
  SubSeq(string, start + 1, start + (IF length < 0 THEN Len(string) - start ELSE length))

\* current_font['cw'].get(c, 0) of a core font: the width of a glyph in
\* thousandths of the font size, for the characters of the modelled texts
char_width(c) ==
  IF c = "a" THEN 40 ELSE IF c = "b" THEN 60 ELSE IF c = " " THEN 20 ELSE 0

\* text.replace("\r", '')
IsNotCR(c) == c # CR

\* a word spacing that divides the room left by the count of spaces seen
SpacingPerSpace(d, a, m) ==
  (((a.wnum * d.font_size) \div a.fs0 - m.ls * d.font_size) * WsUnit) \div m.ns

\* multi_cell: the word spacing (wmax - ls) / 1000.0 * font_size / (ns - 1) of
\* a justified line, in WsUnit-ths of a thousandth of the unit of length;
\* a.wnum is (width - 2 * cell_margin) * 1000 and a.fs0 the font size wmax
\* was computed with
JustifiedSpacing(d, a, m) ==
  (((a.wnum * d.font_size) \div a.fs0 - m.ls * d.font_size) * WsUnit) \div (m.ns - 1)

\* a reset of the word spacing that is left out when nothing is drawn
mc_reset_spacing_drawn(d, a) ==
  IF d.settings.word_spacing > 0 /\ ~a.split_only
  THEN Out([d EXCEPT !.settings.word_spacing = 0], "Tw", <<0>>)
  ELSE d

\* multi_cell: self.settings.word_spacing is put back to 0
mc_reset_spacing(d, a) ==
  IF d.settings.word_spacing > 0
  THEN OutIf(~a.split_only, [d EXCEPT !.settings.word_spacing = 0], "Tw", <<0>>)
  ELSE d

\* multi_cell: the word spacing of a line broken at a space
mc_justify(d, a, m) ==
  IF a.align = "J"
  THEN OutIf(~a.split_only,
             [d EXCEPT !.settings.word_spacing =
                         IF m.ns > 1 THEN JustifiedSpacing(d, a, m) ELSE 0],
             "Tw", <<IF m.ns > 1 THEN JustifiedSpacing(d, a, m) * Scale ELSE 0>>)
  ELSE d

\* instrumentation: the line multi_cell asks for, which starts at the
\* character j: its text and border, the word spacing and the font size in
\* force, the width of the column and the way the line was ended
Line(d, a, j, txt, b, how) ==
  [d EXCEPT !.lines = Append(@, [j |-> j, txt |-> txt, b |-> b, how |-> how,
                                 ws |-> d.settings.word_spacing,
                                 fs |-> d.font_size, w |-> a.width])]

\* multi_cell: one line is handed to cell(), or appended to the list returned
mc_line(d, a, j, txt, b, how) ==
  IF a.split_only
  THEN [Line(d, a, j, txt, b, how) EXCEPT !.ret = Append(@, txt)]
  ELSE cell(Line(d, a, j, txt, b, how),
            a.width, a.height, IF txt = <<>> THEN TxtNone ELSE TxtPlain, b, 2, a.fill)

\* multi_cell: the loop variables after the character s[i] is counted
mc_count(a, m) ==
  [m EXCEPT !.sep = IF a.s[m.i + 1] = " " THEN m.i ELSE @,
            !.ls = IF a.s[m.i + 1] = " " THEN m.l ELSE @,
            !.ns = IF a.s[m.i + 1] = " " THEN @ + 1 ELSE @,
            !.l = @ + char_width(a.s[m.i + 1])]

\* multi_cell: l > wmax, with wmax = (width - 2 * cell_margin) * 1000.0 / font_size
mc_over(a, m) == m.l * a.fs0 > a.wnum

\* multi_cell: the iterations of the loop that end no line
RECURSIVE mc_skip(_, _)
mc_skip(a, m) ==
  IF m.i < a.nb /\ a.s[m.i + 1] # NL /\ ~mc_over(a, mc_count(a, m))
  THEN mc_skip(a, [mc_count(a, m) EXCEPT !.i = @ + 1])
  ELSE m

\* the start of a next line that keeps the border of the first line
mc_newline_same(a, m, i) ==
  [m EXCEPT !.i = i, !.sep = -1, !.j = i, !.l = 0, !.ns = 0, !.nl = @ + 1]

\* multi_cell: the loop variables at the start of the next line, which
\* begins at the character i
mc_newline(a, m, i) ==
  [m EXCEPT !.i = i, !.sep = -1, !.j = i, !.l = 0, !.ns = 0, !.nl = @ + 1,
            !.b = IF a.border # 0 /\ m.nl + 1 = 2 THEN a.b2 ELSE @]

RECURSIVE mc_loop(_, _, _)

\* multi_cell: the rest of the loop, once the line is out
mc_again(d, a, m) == Then({ mc_loop(r, a, m) : r \in {d} })

\* multi_cell: the explicit line break at the character i
mc_explicit(d, a, m) ==
  mc_again(mc_line(mc_reset_spacing(d, a), a, m.j, substr(a.s, m.j, m.i - m.j), m.b, "nl"),
           a, mc_newline(a, m, m.i + 1))

\* an automatic line break of a line without a space that takes the
\* character that does not fit
mc_cut_after(d, a, m, i) ==
  mc_again(mc_line(mc_reset_spacing(d, a), a, m.j, substr(a.s, m.j, m.i + 1 - m.j), m.b, "cut"),
           a, mc_newline(a, m, m.i + 1))

\* multi_cell: the automatic line break of a line without a space; i is the
\* character the next line begins at
mc_cut(d, a, m, i) ==
  mc_again(mc_line(mc_reset_spacing(d, a), a, m.j, substr(a.s, m.j, i - m.j), m.b, "cut"),
           a, mc_newline(a, m, i))

\* an automatic line break at the character that does not fit, whatever
\* spaces were seen
mc_wrap_here(d, a, m) ==
  mc_again(mc_line(mc_justify(d, a, m), a, m.j, substr(a.s, m.j, m.i - m.j), m.b, "wrap"),
           a, mc_newline(a, m, m.i))

\* multi_cell: the automatic line break at the last space
mc_wrap(d, a, m) ==
  mc_again(mc_line(mc_justify(d, a, m), a, m.j, substr(a.s, m.j, m.sep - m.j), m.b, "wrap"),
           a, mc_newline(a, m, m.sep + 1))

\* multi_cell: the automatic line break; m counts the character that does
\* not fit
mc_break(d, a, m) ==
  IF m.sep = -1 THEN mc_cut(d, a, m, IF m.i = m.j THEN m.i + 1 ELSE m.i)
  ELSE mc_wrap(d, a, m)

\* a last chunk that runs to the end of the text
mc_last_all(d, a, m) ==
  IF a.split_only
  THEN mc_line(mc_reset_spacing(d, a), a, m.j, substr(a.s, m.j, -1),
               IF a.border # 0 /\ HasSide(a.border, SideB) THEN m.b + SideB ELSE m.b, "last")
  ELSE [mc_line(mc_reset_spacing(d, a), a, m.j, substr(a.s, m.j, -1),
                IF a.border # 0 /\ HasSide(a.border, SideB) THEN m.b + SideB ELSE m.b, "last")
          EXCEPT !.x = Margin]

\* multi_cell: the last chunk
mc_last(d, a, m) ==
  IF a.split_only
  THEN mc_line(mc_reset_spacing(d, a), a, m.j, substr(a.s, m.j, m.i - m.j),
               IF a.border # 0 /\ HasSide(a.border, SideB) THEN m.b + SideB ELSE m.b, "last")
  ELSE [mc_line(mc_reset_spacing(d, a), a, m.j, substr(a.s, m.j, m.i - m.j),
                IF a.border # 0 /\ HasSide(a.border, SideB) THEN m.b + SideB ELSE m.b, "last")
          EXCEPT !.x = Margin]

\* multi_cell: the loop from the character i on, and the last chunk
mc_at(d, a, m) ==
  IF m.i >= a.nb THEN mc_last(d, a, m)
  ELSE IF a.s[m.i + 1] = NL THEN mc_explicit(d, a, m)
  ELSE mc_break(d, a, mc_count(a, m))

mc_loop(d, a, m) == mc_at(d, a, mc_skip(a, m))

\* multi_cell: the border of the first line and of the lines after it
mc_border(border) == IF border = 1 THEN SideL + SideT + SideR + SideB ELSE border
mc_b2(border) ==
  (IF HasSide(mc_border(border), SideL) THEN SideL ELSE 0)
  + (IF HasSide(mc_border(border), SideR) THEN SideR ELSE 0)
mc_b(border) ==
  IF border = 0 THEN 0
  ELSE mc_b2(border) + (IF HasSide(mc_border(border), SideT) THEN SideT ELSE 0)

\* multi_cell: the length of s without a final "\n"
mc_nb(s) == IF Len(s) > 0 /\ s[Len(s)] = NL THEN Len(s) - 1 ELSE Len(s)

\* multi_cell: width 0 stands for the width up to the right margin
mc_width(d, width) == IF width = 0 THEN d.settings.width_unit - Margin - d.x ELSE width

\* multi_cell(width, height, txt, border, align, fill, split_only) with a
\* core font
multi_cell(d, width, height, txt, border, align, fill, split_only) ==
  IF d.unifontsubset = "unset" THEN Raise(d, "AttributeError")
  ELSE mc_loop(d,
               [s |-> SelectSeq(txt, IsNotCR), nb |-> mc_nb(SelectSeq(txt, IsNotCR)),
                width |-> mc_width(d, width), height |-> height,
                wnum |-> (mc_width(d, width) - 2 * CellMargin) * 1000,
                fs0 |-> d.font_size,
                border |-> mc_border(border), b2 |-> mc_b2(border),
                align |-> align, fill |-> fill, split_only |-> split_only],
               [i |-> 0, j |-> 0, l |-> 0, ls |-> 0, sep |-> -1, ns |-> 0, nl |-> 1,
                b |-> mc_b(border)])

\* what the image parser returns for a file
ParseImage(name) ==
  IF name = "gray.jpg"
  THEN [w |-> 2, h |-> 2, cs |-> "DeviceGray", data |-> TRUE, i |-> 0, n |-> 0]
  ELSE [w |-> 2, h |-> 5, cs |-> "DeviceRGB", data |-> TRUE, i |-> 0, n |-> 0]

NoY == -1

\* instrumentation: the file is handed to an image parser
Parsed(d, name) == [d EXCEPT !.parsed = Append(@, name)]

\* an image that gets a new index every time it is placed
register_image_anew(d, name) ==
  [d EXCEPT !.images = (name :> [ParseImage(name) EXCEPT !.i = Cardinality(DOMAIN d.images) + 1])
                       @@ @]

\* image, postprocess_image_dict: a name used for the first time is
\* registered, with the next index
register_image(d, name) ==
  IF name \notin DOMAIN d.images
  THEN [d EXCEPT !.images = @ @@ (name :>
           [ParseImage(name) EXCEPT !.i = Cardinality(DOMAIN d.images) + 1])]
  ELSE d

\* image: the automatic page break of the flowing mode
image_break(d, y_in, h) ==
  IF y_in = NoY /\ BreakReached(d, h)
  THEN [add_page(d, "", TRUE) EXCEPT !.x = d.x] ELSE d

\* image: the image of size w x h is put at y_in, or at the cursor, which it
\* then moves down; a mask is not drawn
image_draw(d, info, w, h, y_in, is_mask) ==
  OutIf(~is_mask, [d EXCEPT !.y = IF y_in = NoY THEN @ + h ELSE @],
        "Do", <<info.i, w * Scale, h * Scale, d.x * Scale,
                (d.settings.height_unit - ((IF y_in = NoY THEN d.y ELSE y_in) + h)) * Scale>>)

\* image of a registered name, at 72 dpi
image_put(d, info, y_in, is_mask) ==
  Then({ image_draw(r, info, info.w \div Scale, info.h \div Scale, y_in, is_mask) :
         r \in {image_break(d, y_in, info.h \div Scale)} })

\* image: info = self.images[name], and what follows
image_registered(d, name, y_in, is_mask) == image_put(d, d.images[name], y_in, is_mask)

\* image: the first use of a name; the file is parsed, and a mask that is
\* not a gray scale image is refused
image_first(d, name, y_in, is_mask) ==
  IF is_mask /\ ParseImage(name).cs # "DeviceGray"
  THEN Raise(Parsed(d, name), "CatchAllError")
  ELSE image_registered(register_image(Parsed(d, name), name), name, y_in, is_mask)

\* image(name, mask_image = mask): the first use of a name stores the mask
\* with the info; mask names the image of the document whose info was
\* passed, or is a dictionary that no document has given an object
image_masked(d, name, y_in, mask) ==
  IF name \notin DOMAIN d.images
  THEN Then({ image_registered([r EXCEPT !.images[name] = [masked |-> mask] @@ @],
                               name, y_in, FALSE) :
              r \in {register_image(Parsed(d, name), name)} })
  ELSE image_registered(d, name, y_in, FALSE)

\* image(name, y = y_in, is_mask = is_mask) with x, w, h, type, link and
\* mask_image left at their defaults
image(d, name, y_in, is_mask) ==
  IF name \notin DOMAIN d.images THEN image_first(d, name, y_in, is_mask)
  ELSE image_registered(d, name, y_in, is_mask)

\* Figure(name, y = y_in, is_mask = is_mask, settings = self.settings): the
\* file is parsed, and a mask that is not a gray scale image fails the assertion
new_figure(d, name, is_mask) ==
  IF is_mask /\ ParseImage(name).cs # "DeviceGray"
  THEN Raise(Parsed(d, name), "AssertionError")
  ELSE Parsed(d, name)

\* add_page_if_break_reached for a Figure of height h built with y = y_in
add_page_if_break_reached(d, y_in, h) ==
  IF y_in = NoY
  THEN [(IF BreakReached(d, h) THEN [add_page(d, "", TRUE) EXCEPT !.x = d.x] ELSE d)
          EXCEPT !.y = @ + h]
  ELSE d

postprocess_image_dict(d, name) == register_image(d, name)

\* insert: the string of a Figure of height h whose y was None or y_in; a
\* mask has no string, which insert refuses
figure_out(d, name, w, h, y_in, is_mask) ==
  IF is_mask THEN Raise(d, "TypeError")
  ELSE Out(d, "Do", <<d.images[name].i, w * Scale, h * Scale, d.x * Scale,
                      (d.settings.height_unit - ((IF y_in = NoY THEN d.y - h ELSE y_in) + h))
                        * Scale>>)

\* insert(figure) for a Figure of the file name
insert_figure(d, name, y_in, is_mask) ==
  Then({ figure_out(postprocess_image_dict(r, name), name,
                    ParseImage(name).w \div Scale, ParseImage(name).h \div Scale, y_in,
                    is_mask) :
         r \in {add_page_if_break_reached(d, y_in, ParseImage(name).h \div Scale)} })

\* insert(figure) under the check_page decorator, d being the document after
\* the Figure was built
insert_built(d, name, y_in, is_mask) ==
  IF d.raised # "none" THEN d
  ELSE IF d.current_page = 0 THEN Raise(d, "CatchAllError")
  ELSE MarkBody(insert_figure(d, name, y_in, is_mask))

\* insert(Figure(name, y = y_in, is_mask = is_mask, settings = self.settings))
insert_new_figure(d, name, y_in, is_mask) ==
  insert_built(new_figure(d, name, is_mask), name, y_in, is_mask)

\* insert(Line(x1, y1, x2, y2))
insert_line(d, x1, y1, x2, y2) ==
  Out(d, "line", <<x1 * Scale, (d.settings.height_unit - y1) * Scale,
                   x2 * Scale, (d.settings.height_unit - y2) * Scale>>)

\* DashedLine.set_dash: the dash pattern operator, solid when a length is 0
set_dash(dash_length, space_length) ==
  IF dash_length # 0 /\ space_length # 0
  THEN <<"d", <<dash_length * Scale, space_length * Scale>> >>
  ELSE <<"d", <<>> >>

\* insert(DashedLine(x1, y1, x2, y2, dash_length, space_length)): the three
\* strings of to_string, the last one being set_dash(settings) with the
\* default lengths of set_dash
insert_dashed(d, x1, y1, x2, y2, dash_length, space_length) ==
  OutAll(d, <<set_dash(dash_length, space_length),
              <<"line", <<x1 * Scale, (d.settings.height_unit - y1) * Scale,
                          x2 * Scale, (d.settings.height_unit - y2) * Scale>> >>,
              set_dash(1, 1)>>)

\* the part of output(name, dest) after the document is closed: d1 is the
\* closed document; the destination that received the buffer is put in sink
deliver(d1, name, dest_in) ==
  LET dest == IF dest_in = "" THEN (IF name = "" THEN "I" ELSE "F") ELSE dest_in
  IN IF d1.raised # "none" THEN d1
     ELSE IF dest \in {"I", "D"} THEN [d1 EXCEPT !.sink = "stdout"]
     ELSE IF dest = "F" THEN [d1 EXCEPT !.sink = "file"]
     ELSE IF dest = "S" THEN [d1 EXCEPT !.sink = "returned"]
     ELSE Raise(d1, "CatchAllError")

\* ------------------------------------------------------ _putTTfontwidths
\* A TrueType font is its table of widths font['cw'] and the code points
\* font['subset'] the document uses. The table is 0 outside the code points
\* FirstCid..maxUni, which the loop passes over (width == 0: continue), so
\* the loop is run from FirstCid on.
NoTTFont == [cw |-> <<>>, subset |-> {}]
CwAt(font, cid) == IF cid \in DOMAIN font.cw THEN font.cw[cid] ELSE 0

\* range_[k] = v
Put(f, k, v) == [c \in DOMAIN f \cup {k} |-> IF c = k THEN v ELSE f[c]]

\* del range_[k]
Del(f, k) == [c \in DOMAIN f \ {k} |-> f[c]]

\* the markers of a list of widths in the /W array
OpenList == -1
CloseList == -2

\* a first pass that starts the range of a repeated width and leaves the
\* first of the two widths in the range before
tt_same_left(st, cid, width) ==
  IF width = st.range[st.rangeid][1]
  THEN [st EXCEPT !.range[st.rangeid] = Append(@, width),
                  !.interval = TRUE,
                  !.range_interval = @ \cup {st.rangeid}]
  ELSE [st EXCEPT !.range = Put(@, st.prevcid, <<st.prevwidth, width>>),
                  !.rangeid = st.prevcid,
                  !.interval = TRUE,
                  !.range_interval = @ \cup {st.prevcid}]

\* _putTTfontwidths: the code point follows the last one and has its width
tt_same(st, cid, width) ==
  IF width = st.range[st.rangeid][1]
  THEN [st EXCEPT !.range[st.rangeid] = Append(@, width),
                  !.interval = TRUE,
                  !.range_interval = @ \cup {st.rangeid}]
  ELSE [st EXCEPT !.range = Put([st.range EXCEPT ![st.rangeid] =
                                    SubSeq(@, 1, Len(@) - 1)],
                                st.prevcid, <<st.prevwidth, width>>),
                  !.rangeid = st.prevcid,
                  !.interval = TRUE,
                  !.range_interval = @ \cup {st.prevcid}]

\* _putTTfontwidths: the code point follows the last one with another width
tt_other(st, cid, width) ==
  IF st.interval
  THEN [st EXCEPT !.rangeid = cid, !.range = Put(@, cid, <<width>>), !.interval = FALSE]
  ELSE [st EXCEPT !.range[st.rangeid] = Append(@, width), !.interval = FALSE]

\* _putTTfontwidths: the width of a retained code point is put in a range
tt_range(st, cid, width) ==
  [(IF cid = st.prevcid + 1
    THEN (IF width = st.prevwidth THEN tt_same(st, cid, width)
          ELSE tt_other(st, cid, width))
    ELSE [st EXCEPT !.rangeid = cid, !.range = Put(@, cid, <<width>>), !.interval = FALSE])
     EXCEPT !.prevcid = cid, !.prevwidth = width]

\* _putTTfontwidths: one iteration of the loop over the code points; no font
\* has a 'dw' entry
tt_visit(font, st, cid) ==
  IF cid > 255 /\ cid \notin font.subset THEN st
  ELSE IF CwAt(font, cid) = 0 THEN st
  ELSE tt_range(st, cid, IF CwAt(font, cid) = 65535 THEN 0 ELSE CwAt(font, cid))

RECURSIVE tt_scan(_, _, _, _)
tt_scan(font, maxUni, st, cid) ==
  IF cid > maxUni THEN st
  ELSE tt_scan(font, maxUni, tt_visit(font, st, cid), cid + 1)

\* _putTTfontwidths: the ranges of the loop over the code points, without
\* the cache file of the first 127 widths
tt_ranges(font, maxUni) ==
  tt_scan(font, maxUni,
          [rangeid |-> 0, range |-> <<>>, range_interval |-> {},
           prevcid |-> -2, prevwidth |-> -1, interval |-> FALSE],
          FirstCid)

\* sorted(range_.items()): the keys in increasing order
RECURSIVE SortedKeys(_)
SortedKeys(K) ==
  IF K = {} THEN <<>>
  ELSE <<CHOOSE k \in K : \A c \in K : k <= c>>
       \o SortedKeys(K \ {CHOOSE k \in K : \A c \in K : k <= c})

\* _putTTfontwidths: the range k, of length cws, is merged into the range
\* prevk if it starts where the last range was taken to end
tt_join(ms, k, cws) ==
  IF k = ms.nextk /\ ~ms.prevint /\ (k \notin ms.range_interval \/ cws < 3)
  THEN [ms EXCEPT !.range = Del(Put(@, ms.prevk, @[ms.prevk] \o @[k]), k),
                  !.range_interval = @ \ {k}]
  ELSE [ms EXCEPT !.prevk = k]

\* _putTTfontwidths: where the range k is taken to end
tt_end(ms, k, cws) ==
  IF k \in ms.range_interval
  THEN [ms EXCEPT !.nextk = k + cws - 1, !.prevint = cws > 3, !.range_interval = @ \ {k}]
  ELSE [ms EXCEPT !.nextk = k + cws, !.prevint = FALSE]

\* _putTTfontwidths: one iteration of the pass that merges a range into the
\* one before it; cws is the length of range k before the pass
tt_merge(ms, k, cws) == tt_end(tt_join(ms, k, cws), k, cws)

RECURSIVE tt_merges(_, _, _, _)
tt_merges(ms, items, keys, i) ==
  IF i > Len(keys) THEN ms
  ELSE tt_merges(tt_merge(ms, keys[i], Len(items[keys[i]])), items, keys, i + 1)

\* _putTTfontwidths: the ranges after the merging pass
tt_merged(st) ==
  tt_merges([range |-> st.range, range_interval |-> st.range_interval,
             prevk |-> -1, nextk |-> -1, prevint |-> FALSE],
            st.range, SortedKeys(DOMAIN st.range), 1).range

\* _putTTfontwidths: ' start end width' for a range of one width,
\* ' start [ w0 w1 ... ]' otherwise
tt_format(k, ws) ==
  IF Cardinality({ws[i] : i \in 1..Len(ws)}) = 1
  THEN <<k, k + Len(ws) - 1, ws[1]>>
  ELSE <<k, OpenList>> \o ws \o <<CloseList>>

RECURSIVE tt_formats(_, _, _)
tt_formats(range, keys, i) ==
  IF i > Len(keys) THEN <<>>
  ELSE tt_format(keys[i], range[keys[i]]) \o tt_formats(range, keys, i + 1)

\* the /W array of ranges
tt_array(range) == tt_formats(range, SortedKeys(DOMAIN range), 1)

\* _putTTfontwidths(font, maxUni)
putTTfontwidths(d, font, maxUni) ==
  Out(d, "W", tt_array(tt_merged(tt_ranges(font, maxUni))))

\* load_cache of a file that does not exist; cache is the file of the ranges
\* of the first 127 code points of the font, kept next to the font file
NoCache == [exists |-> FALSE]

\* the fonts built with the cache file have no width below this code point
LowCid == 125

\* a cached state that is taken up one code point too late
tt_load_late(font_dict) ==
  IF ~font_dict.exists
  THEN [st |-> [rangeid |-> 0, range |-> <<>>, range_interval |-> {},
                prevcid |-> -2, prevwidth |-> -1, interval |-> FALSE],
        startcid |-> 1]
  ELSE [st |-> font_dict.dict, startcid |-> 129]

\* _putTTfontwidths: the state the loop starts in and its first code point,
\* from scratch or from the cache file
tt_load(font_dict) ==
  IF ~font_dict.exists
  THEN [st |-> [rangeid |-> 0, range |-> <<>>, range_interval |-> {},
                prevcid |-> -2, prevwidth |-> -1, interval |-> FALSE],
        startcid |-> 1]
  ELSE [st |-> font_dict.dict, startcid |-> 128]

\* _putTTfontwidths: the loop from startcid on; the widths below LowCid are
\* 0 and passed over
tt_ranges_from(font, maxUni, ld) ==
  tt_scan(font, maxUni, ld.st, IF ld.startcid < LowCid THEN LowCid ELSE ld.startcid)

\* _putTTfontwidths: the cache file after the loop; a loop that started at 1
\* and reached code point 128 without finding the file has dumped its state
\* there
tt_dump(font, maxUni, font_dict) ==
  IF ~font_dict.exists /\ maxUni >= 128
  THEN [exists |-> TRUE, dict |-> tt_ranges_from(font, 127, tt_load(font_dict))]
  ELSE font_dict

\* _putTTfontwidths(font, maxUni) for a font with a cache file name; ret
\* tells whether the cache file was found
putTTfontwidths_cached(d, font, maxUni) ==
  Out([d EXCEPT !.cache = tt_dump(font, maxUni, d.cache), !.ret = <<d.cache.exists>>],
      "W", tt_array(tt_merged(tt_ranges_from(font, maxUni, tt_load(d.cache)))))

\* ---------------------------------------------------------------- state
VARIABLES state, current_page, n, offsets, buffer, buflen, pages, fonts, images,
          settings, x, y, lasth, in_footer, font_size, current_font,
          unifontsubset, header_impl, footer_impl,
          hist, log, started, raised, call, args, at, calls, sink,
          ret, lines, hook_ws, breaks, parsed, ttfont, cache,
          font_files, diffs, links, page_links

vars == <<state, current_page, n, offsets, buffer, buflen, pages, fonts, images,
          settings, x, y, lasth, in_footer, font_size, current_font,
          unifontsubset, header_impl, footer_impl,
          hist, log, started, raised, call, args, at, calls, sink,
          ret, lines, hook_ws, breaks, parsed, ttfont, cache,
          font_files, diffs, links, page_links>>

\* the FPDF object as a record; ret is what the call returns, and lines (the
\* cells multi_cell asks for), hook_ws (the word spacing header() and footer()
\* find), breaks (the automatic page breaks of cell()) and parsed (the files
\* handed to an image parser) are instrumentation of one call
Self ==
  [state |-> state, current_page |-> current_page, n |-> n, offsets |-> offsets,
   buffer |-> buffer, buflen |-> buflen, pages |-> pages, fonts |-> fonts, images |-> images,
   settings |-> settings, x |-> x, y |-> y, lasth |-> lasth,
   in_footer |-> in_footer, font_size |-> font_size, current_font |-> current_font,
   unifontsubset |-> unifontsubset, header_impl |-> header_impl,
   footer_impl |-> footer_impl,
   hist |-> hist, log |-> log, started |-> started, raised |-> "none",
   who |-> "body", sink |-> "none",
   ret |-> <<>>, lines |-> <<>>, hook_ws |-> {}, breaks |-> <<>>, parsed |-> <<>>,
   cache |-> cache,
   font_files |-> font_files, diffs |-> diffs, links |-> links,
   page_links |-> page_links]

\* PDFSettings.__init__ with orientation 'P'
SettingsInit ==
  [font_family |-> "", font_style |-> <<>>, font_size_pt |-> FontSizeInit,
   font_stretching |-> StretchInit, underline |-> FALSE,
   draw_color |-> ColorInit, fill_color |-> ColorInit, text_color |-> ColorInit,
   color_flag |-> FALSE, word_spacing |-> 0, angle |-> 0,
   def_orientation |-> "P",
   width_points |-> FileWidth * Scale, height_points |-> FileHeight * Scale,
   width_unit |-> FileWidth, height_unit |-> FileHeight,
   line_width |-> LineWidthInit,
   auto_page_break |-> TRUE, page_break_trigger |-> FileHeight - 2 * Margin,
   compress |-> TRUE]

\* FPDF.__init__, followed by the client's choice of the two settings it may
\* assign before building (auto_page_break, compress) and of the overrides of
\* header() and footer(); ttfont, the TrueType font whose widths are
\* serialised, is chosen by each specification
Init ==
  /\ state = "UNSTARTED"
  /\ current_page = 0
  /\ n = 2
  /\ offsets = <<>>
  /\ buffer = <<>>
  /\ buflen = 0
  /\ pages = <<>>
  /\ fonts = <<>>
  /\ images = <<>>
  /\ \E apb \in BOOLEAN, z \in BOOLEAN :
        settings = [SettingsInit EXCEPT !.auto_page_break = apb, !.compress = z]
  /\ x = 0
  /\ y = 0
  /\ lasth = 0
  /\ in_footer = FALSE
  /\ font_size = 0
  /\ current_font = <<>>
  /\ unifontsubset = "unset"
  /\ header_impl \in Hooks
  /\ footer_impl \in Hooks
  /\ hist = {}
  /\ log = <<>>
  /\ started = 0
  /\ raised = "none"
  /\ call = "init"
  /\ args = [h |-> 0, flow |-> FALSE]
  /\ at = [state |-> "UNSTARTED", page |-> 0, y |-> 0]
  /\ calls = 0
  /\ sink = "none"
  /\ ret = <<>>
  /\ lines = <<>>
  /\ hook_ws = {}
  /\ breaks = <<>>
  /\ parsed = <<>>
  /\ cache = NoCache
  /\ font_files = <<>>
  /\ diffs = <<>>
  /\ links = <<>>
  /\ page_links = <<>>

NoArgs == [h |-> 0, flow |-> FALSE]

\* the object after the call `name`, made with the arguments a, returned or
\* raised; `at` keeps the state, page and ordinate the call was made at
Commit(r, name, a) ==
  /\ state' = r.state
  /\ current_page' = r.current_page
  /\ n' = r.n
  /\ offsets' = r.offsets
  /\ buffer' = r.buffer
  /\ buflen' = r.buflen
  /\ pages' = r.pages
  /\ fonts' = r.fonts
  /\ images' = r.images
  /\ settings' = r.settings
  /\ x' = r.x
  /\ y' = r.y
  /\ lasth' = r.lasth
  /\ in_footer' = r.in_footer
  /\ font_size' = r.font_size
  /\ current_font' = r.current_font
  /\ unifontsubset' = r.unifontsubset
  /\ UNCHANGED <<header_impl, footer_impl, ttfont>>
  /\ cache' = r.cache
  /\ font_files' = r.font_files
  /\ diffs' = r.diffs
  /\ links' = r.links
  /\ page_links' = r.page_links
  /\ hist' = r.hist
  /\ log' = r.log
  /\ started' = r.started
  /\ raised' = r.raised
  /\ call' = name
  /\ args' = a
  /\ at' = [state |-> state, page |-> current_page, y |-> y]
  /\ calls' = IF name \in {"close", "output"} /\ r.state # state THEN calls ELSE calls + 1
  /\ sink' = r.sink
  /\ ret' = r.ret
  /\ lines' = r.lines
  /\ hook_ws' = r.hook_ws
  /\ breaks' = r.breaks
  /\ parsed' = r.parsed

\* the model explores at most MaxCalls calls, a close() or output() that
\* ends the writing of a page not counted
Budget == calls < MaxCalls

\* the check_page decorator around a drawing method
check_page(r) ==
  IF current_page = 0 THEN Raise(Self, "CatchAllError") ELSE MarkBody(r)

\* ------------------------------------------------------------ operations
FontsIn == { <<"arial", <<"I", "B">>, 0>>, <<"times", <<"U">>, 8>> }
CellsIn == { [h |-> 5, ln |-> 1], [h |-> 6, ln |-> 1] }
ImageNames == {"rgb.png"}

AddPage ==
  /\ Budget
  /\ \E o \in Orientations : Commit(add_page(Self, o, FALSE), "add_page", NoArgs)

SetFont ==
  /\ Budget
  /\ \E f \in FontsIn : Commit(MarkBody(set_font(Self, f[1], f[2], f[3])), "set_font", NoArgs)

SetDrawColor ==
  /\ Budget
  /\ Commit(MarkBody(set_draw_color(Self, 1)), "set_draw_color", NoArgs)

SetFillColor ==
  /\ Budget
  /\ Commit(MarkBody(set_fill_color(Self, 1)), "set_fill_color", NoArgs)

SetTextColor ==
  /\ Budget
  /\ Commit(set_text_color(Self, 1), "set_text_color", NoArgs)

SetLineWidth ==
  /\ Budget
  /\ Commit(MarkBody(set_line_width(Self, 3)), "set_line_width", NoArgs)

SetStretching ==
  /\ Budget
  /\ Commit(MarkBody(set_stretching(Self, 120)), "set_stretching", NoArgs)

Cell ==
  /\ Budget
  /\ \E c \in CellsIn :
       Commit(check_page(cell(Self, 2, c.h, TxtPlain, 1, c.ln, 0)),
              "cell", [h |-> c.h, flow |-> TRUE])

\* the arguments of the cells that move the cursor in each of the three ways
CellsToIn == [w : {0, 2}, h : {3, 6}, ln : {0, 1, 2}]

\* cell(w, h, 'x', ln=ln)
CellTo ==
  /\ Budget
  /\ \E c \in CellsToIn :
       Commit(check_page(cell(Self, c.w, c.h, TxtPlain, 0, c.ln, 0)),
              "cell", [h |-> c.h, flow |-> TRUE, w |-> c.w, ln |-> c.ln])

\* the tables of widths and the sets of used code points of the fonts: a
\* width is 0 (no glyph), 65535 (a glyph of width 0) or one of two widths
WidthsIn == {0, 65535, 5, 7}
TTFontsIn ==
  [cw : [FirstCid..MaxUni -> WidthsIn], subset : SUBSET {c \in FirstCid..MaxUni : c > 255}]

\* _putTTfontwidths(font, maxUni), called once for the font
PutTTfontwidths ==
  /\ call = "init"
  /\ Commit(putTTfontwidths(Self, ttfont, MaxUni), "_putTTfontwidths", NoArgs)

\* the tables of widths of the fonts whose first ranges are cached
CachedFontsIn == [cw : [LowCid..MaxCid -> WidthsIn], subset : {{}}]

\* _putTTfontwidths(font, maxUni) of one more build of the document
PutTTfontwidthsCached ==
  /\ Budget
  /\ Commit(putTTfontwidths_cached(Self, ttfont, MaxCid), "_putTTfontwidths", NoArgs)

\* the files of the images and masks: an RGB and a gray scale image
ImageFiles == {"rgb.png", "gray.jpg"}

\* documents of images are explored up to MaxImageCalls calls
ImageBudget == calls < MaxImageCalls

\* image(name, is_mask = is_mask); known tells whether the name was registered
ImageOf ==
  /\ ImageBudget
  /\ \E name \in ImageFiles, is_mask \in BOOLEAN :
       Commit(check_page(image(Self, name, NoY, is_mask)),
              "image", [h |-> ParseImage(name).h \div Scale, flow |-> TRUE, name |-> name,
                        is_mask |-> is_mask, known |-> name \in DOMAIN images])

\* the masks handed to image: the info of the gray scale image, once image()
\* has returned it, and a dictionary without an object number
ForeignMask == "foreign"
MasksIn == {"gray.jpg", ForeignMask}

\* image("rgb.png", mask_image = mask)
ImageMasked ==
  /\ ImageBudget
  /\ \E mask \in MasksIn :
       /\ mask = ForeignMask \/ mask \in DOMAIN images
       /\ Commit(check_page(image_masked(Self, "rgb.png", NoY, mask)),
                 "image", [h |-> ParseImage("rgb.png").h \div Scale, flow |-> TRUE,
                           name |-> "rgb.png", is_mask |-> FALSE,
                           known |-> "rgb.png" \in DOMAIN images])

\* image("gray.jpg", is_mask = True), which registers the mask
ImageMask ==
  /\ ImageBudget
  /\ Commit(check_page(image(Self, "gray.jpg", NoY, TRUE)),
            "image", [h |-> ParseImage("gray.jpg").h \div Scale, flow |-> TRUE,
                      name |-> "gray.jpg", is_mask |-> TRUE,
                      known |-> "gray.jpg" \in DOMAIN images])

\* insert(Figure(name, is_mask = is_mask, settings = self.settings))
InsertFigureOf ==
  /\ ImageBudget
  /\ \E name \in ImageFiles, is_mask \in BOOLEAN :
       Commit(insert_new_figure(Self, name, NoY, is_mask),
              "insert_figure", [h |-> ParseImage(name).h \div Scale, flow |-> TRUE,
                                name |-> name, is_mask |-> is_mask,
                                known |-> name \in DOMAIN images])

Text ==
  /\ Budget
  /\ Commit(check_page(text(Self, 2, 2, TxtPlain)), "text", NoArgs)

Ln ==
  /\ Budget
  /\ Commit(check_page(ln(Self, 3)), "ln", NoArgs)

Rotate ==
  /\ Budget
  /\ Commit(check_page(rotate(Self, 90)), "rotate", NoArgs)

Image ==
  /\ Budget
  /\ \E name \in ImageNames, y_in \in {NoY} :
       Commit(check_page(image(Self, name, y_in, FALSE)),
              "image", [h |-> ParseImage(name).h \div Scale, flow |-> y_in = NoY])

InsertFigure ==
  /\ Budget
  /\ \E name \in ImageNames, y_in \in {NoY, 2} :
       Commit(insert_new_figure(Self, name, y_in, FALSE),
              "insert_figure", [h |-> ParseImage(name).h \div Scale, flow |-> y_in = NoY])

InsertLine ==
  /\ Budget
  /\ Commit(check_page(insert_line(Self, 1, 2, 3, 2)), "insert_line", NoArgs)

\* the dash and space lengths of the dashed lines
DashesIn == [dash : {0, 1, 3}, space : {0, 1, 2}]

\* insert(DashedLine(1, 2, 3, 2, dash, space))
InsertDashed ==
  /\ Budget
  /\ \E c \in DashesIn :
       Commit(check_page(insert_dashed(Self, 1, 2, 3, 2, c.dash, c.space)),
              "insert_dashed", [h |-> 0, flow |-> FALSE, dash |-> c.dash, space |-> c.space])

\* the texts and arguments of the multi_cell calls
TxtWords == <<"a", " ", "a", " ", "a", " ", "a">>
TxtLong == <<"a", "a", "a", "a", "a">>
TxtPara == <<"a", "b", NL, "b", NL>>
TxtGap == <<"a", "a", " ", " ", "a", "a", "b">>
TxtPair == <<"a", "a", "a", " ", "a", "a">>
TxtMore == <<"a", " ", "a", " ", "a", " ", "a", "a", "a", "a", "a">>
TxtCR == <<"a", " ", "a", " ", "a", " ", "a", CR, NL>>
MultiCellsIn ==
  { [txt |-> TxtWords, width |-> 0, height |-> 6, border |-> 0, align |-> "J",
     fill |-> 0, split_only |-> FALSE],
    [txt |-> TxtWords, width |-> 0, height |-> 2, border |-> 1, align |-> "J",
     fill |-> 0, split_only |-> FALSE],
    [txt |-> TxtWords, width |-> 0, height |-> 2, border |-> 1, align |-> "J",
     fill |-> 0, split_only |-> TRUE],
    [txt |-> TxtWords, width |-> 4, height |-> 2, border |-> SideL + SideT + SideB,
     align |-> "L", fill |-> 0, split_only |-> FALSE],
    [txt |-> TxtLong, width |-> 0, height |-> 2, border |-> SideT + SideB, align |-> "J",
     fill |-> 0, split_only |-> FALSE],
    [txt |-> TxtLong, width |-> 0, height |-> 2, border |-> SideT + SideB, align |-> "J",
     fill |-> 0, split_only |-> TRUE],
    [txt |-> TxtPara, width |-> 4, height |-> 2, border |-> 1, align |-> "J",
     fill |-> 1, split_only |-> FALSE],
    [txt |-> TxtPara, width |-> 4, height |-> 2, border |-> 1, align |-> "J",
     fill |-> 1, split_only |-> TRUE],
    [txt |-> <<>>, width |-> 0, height |-> 2, border |-> 1, align |-> "J",
     fill |-> 0, split_only |-> FALSE],
    [txt |-> <<"a">>, width |-> 0, height |-> 2, border |-> SideR + SideB, align |-> "J",
     fill |-> 0, split_only |-> FALSE],
    [txt |-> TxtGap, width |-> 0, height |-> 2, border |-> 0, align |-> "J",
     fill |-> 0, split_only |-> FALSE],
    [txt |-> TxtPair, width |-> 0, height |-> 2, border |-> SideL, align |-> "J",
     fill |-> 0, split_only |-> FALSE],
    [txt |-> TxtMore, width |-> 0, height |-> 6, border |-> 0, align |-> "J",
     fill |-> 0, split_only |-> FALSE],
    [txt |-> TxtMore, width |-> 0, height |-> 6, border |-> 0, align |-> "J",
     fill |-> 0, split_only |-> TRUE],
    [txt |-> TxtCR, width |-> 0, height |-> 2, border |-> 1, align |-> "J",
     fill |-> 0, split_only |-> FALSE] }

\* the check_page decorator around multi_cell: the call is let through
\* without a page when split_only is passed by keyword
check_page_unless(split_only, r) ==
  IF current_page = 0 /\ ~split_only THEN Raise(Self, "CatchAllError")
  ELSE IF split_only THEN r ELSE MarkBody(r)

\* multi_cell(width, height, txt, border, align, fill, split_only=split_only)
MultiCell ==
  /\ Budget
  /\ \E c \in MultiCellsIn :
       Commit(check_page_unless(c.split_only,
                                multi_cell(Self, c.width, c.height, c.txt, c.border,
                                           c.align, c.fill, c.split_only)),
              "multi_cell", [h |-> c.height, flow |-> TRUE, c |-> c])

\* every text of at most MaxTextLen characters, and the columns they are
\* split into: of width 0 (up to the right margin), 3, 2 (no room for a
\* glyph) and 1 (narrower than the two cell margins)
TextsIn == UNION { [1..k -> {"a", " ", NL, CR}] : k \in 0..MaxTextLen }
SplitsIn ==
  [txt : TextsIn, width : {0, 1, 2, 3}, height : {2}, border : {0}, align : {"L", "J"},
   fill : {0}, split_only : {TRUE}]

\* multi_cell(width, height, txt, align=align, split_only=True); the model
\* explores one such call after each other call
MultiCellSplit ==
  /\ Budget
  /\ call # "multi_cell"
  /\ \E c \in SplitsIn :
       Commit(check_page_unless(c.split_only,
                                multi_cell(Self, c.width, c.height, c.txt, c.border,
                                           c.align, c.fill, c.split_only)),
              "multi_cell", [h |-> c.height, flow |-> TRUE, c |-> c])

Close ==
  /\ Budget \/ state \in {"UNSTARTED", "WRITING_PAGE"}
  /\ Commit(close(Self), "close", NoArgs)

Output ==
  /\ Budget \/ state \in {"UNSTARTED", "WRITING_PAGE"}
  /\ LET closed == IF state # "TERMINATED" THEN close(Self) ELSE Self
     IN \E nd \in {<<"", "">>, <<"doc.pdf", "">>} :
          Commit(deliver(closed, nd[1], nd[2]), "output", NoArgs)

\* the names and destination codes handed to output
OutputsIn == [name : {"", "doc.pdf"}, dest : {"", "S", "X"}]

\* output(name, dest)
OutputTo ==
  /\ Budget \/ state \in {"UNSTARTED", "WRITING_PAGE"}
  /\ LET closed == IF state # "TERMINATED" THEN close(Self) ELSE Self
     IN \E o \in OutputsIn :
          Commit(deliver(closed, o.name, o.dest), "output",
                 [h |-> 0, flow |-> FALSE, name |-> o.name, dest |-> o.dest])

\* the document lifecycle and its serialisation, with text and images
Next ==
  \/ AddPage
  \/ SetFont
  \/ Cell
  \/ Image
  \/ Close

\* documents with automatic page break whose class overrides both callbacks
\* or neither
InitLife ==
  Init /\ settings.auto_page_break /\ header_impl = footer_impl /\ ttfont = NoTTFont

Spec == InitLife /\ [][Next]_vars

\* the graphics state across page starts, the drawing calls that read it,
\* and the delivery of the document
NextPaint ==
  \/ AddPage
  \/ SetFont
  \/ SetDrawColor
  \/ SetFillColor
  \/ SetTextColor
  \/ SetLineWidth
  \/ SetStretching
  \/ Cell
  \/ Text
  \/ Rotate
  \/ InsertLine
  \/ Close
  \/ Output

\* documents with automatic page break and compression
InitPaint == Init /\ settings.auto_page_break /\ settings.compress /\ ttfont = NoTTFont

SpecPaint == InitPaint /\ [][NextPaint]_vars

\* the automatic page break of cells, images and figures
NextBreak ==
  \/ AddPage
  \/ SetFont
  \/ Cell
  \/ Ln
  \/ Image
  \/ InsertFigure
  \/ Close

\* compressed documents, with and without automatic page break, whose class
\* overrides both callbacks or neither
InitBreak == Init /\ settings.compress /\ header_impl = footer_impl /\ ttfont = NoTTFont

SpecBreak == InitBreak /\ [][NextBreak]_vars

\* paragraphs of text: the lines of multi_cell and the page breaks of
\* their cells
NextText ==
  \/ AddPage
  \/ SetFont
  \/ MultiCell

\* compressed documents with automatic page break, whose class overrides
\* both callbacks or neither
InitText ==
  /\ Init /\ settings.auto_page_break /\ settings.compress /\ header_impl = footer_impl
  /\ ttfont = NoTTFont

SpecText == InitText /\ [][NextText]_vars

\* the cursor after cells to the right, to the next line and below
NextCursor ==
  \/ AddPage
  \/ SetFont
  \/ CellTo

\* compressed documents with automatic page break
InitCursor == Init /\ settings.auto_page_break /\ settings.compress /\ ttfont = NoTTFont

SpecCursor == InitCursor /\ [][NextCursor]_vars

\* the serialisation of the widths of a TrueType font
NextWidths == PutTTfontwidths

\* a document about to serialise a TrueType font
InitWidths ==
  /\ Init /\ settings.auto_page_break /\ settings.compress
  /\ header_impl = "noop" /\ footer_impl = "noop"
  /\ ttfont \in TTFontsIn

SpecWidths == InitWidths /\ [][NextWidths]_vars

\* images and masks, placed by image() and by insert() of a Figure
NextImage ==
  \/ AddPage
  \/ ImageOf
  \/ InsertFigureOf
  \/ Close

\* compressed documents with automatic page break, whose class overrides
\* both callbacks or neither
InitImage ==
  /\ Init /\ settings.auto_page_break /\ settings.compress /\ header_impl = footer_impl
  /\ ttfont = NoTTFont

SpecImage == InitImage /\ [][NextImage]_vars

\* documents handed to output
NextOutput ==
  \/ AddPage
  \/ SetFont
  \/ Cell
  \/ OutputTo
  \/ Close

\* compressed documents with automatic page break, whose class overrides
\* both callbacks or neither
InitOutput ==
  /\ Init /\ settings.auto_page_break /\ settings.compress /\ header_impl = footer_impl
  /\ ttfont = NoTTFont

SpecOutput == InitOutput /\ [][NextOutput]_vars

\* pages of lines, dashed or not
NextDash ==
  \/ AddPage
  \/ InsertDashed
  \/ InsertLine
  \/ Close

\* compressed documents with automatic page break, whose class overrides
\* both callbacks or neither
InitDash ==
  /\ Init /\ settings.auto_page_break /\ settings.compress /\ header_impl = footer_impl
  /\ ttfont = NoTTFont

SpecDash == InitDash /\ [][NextDash]_vars

\* builds of a document with one TrueType font, the first of which finds
\* no cache file
NextCache == PutTTfontwidthsCached

InitCache ==
  /\ Init /\ settings.auto_page_break /\ settings.compress
  /\ header_impl = "noop" /\ footer_impl = "noop"
  /\ ttfont \in CachedFontsIn

SpecCache == InitCache /\ [][NextCache]_vars

\* texts split into lines by multi_cell
NextSplit ==
  \/ SetFont
  \/ MultiCellSplit

InitSplit ==
  /\ Init /\ settings.auto_page_break /\ settings.compress
  /\ header_impl = "noop" /\ footer_impl = "noop"
  /\ ttfont = NoTTFont

SpecSplit == InitSplit /\ [][NextSplit]_vars

\* documents with a masked image, serialised
\* the font definition files add_font may load: a Type1 or TrueType font,
\* which names no font file, or names one under 'file' and 'filename', or
\* under 'file' alone, and has an encoding difference or none
FontDict(type, file, filename, diff) ==
  (IF type = "TrueType"
   THEN [type |-> type, enc |-> TRUE, file |-> file, filename |-> filename,
         originalsize |-> 9]
   ELSE [type |-> type, enc |-> TRUE, file |-> file, filename |-> filename,
         size1 |-> 5, size2 |-> 4])
  @@ (IF diff = "" THEN <<>> ELSE [diff |-> diff])

FontDictsIn ==
  { FontDict(t, f[1], f[2], df) :
      t \in {"Type1", "TrueType"},
      f \in { <<"", "">>, <<"brush.z", "brush.z">>, <<"brush.z", "">> },
      df \in {"", "128 /Euro", "130 /quotesinglbase"} }

AddFont ==
  /\ Budget
  /\ \E fam \in {"brush", "arial"}, fd \in FontDictsIn :
       Commit(MarkBody(add_font(Self, fam, <<"I", "B">>, fd)), "add_font", NoArgs)

NextFont ==
  \/ AddPage
  \/ AddFont
  \/ SetFont
  \/ Close

InitFont ==
  /\ Init /\ settings.auto_page_break /\ settings.compress
  /\ header_impl = "noop" /\ footer_impl = "noop"
  /\ ttfont = NoTTFont

SpecFont == InitFont /\ [][NextFont]_vars

\* documents with links are explored up to MaxLinkCalls calls
LinkBudget == calls < MaxLinkCalls

AddPageAs ==
  /\ LinkBudget
  /\ \E o \in {"", "L"} : Commit(add_page(Self, o, FALSE), "add_page", NoArgs)

AddLink ==
  /\ LinkBudget
  /\ Len(links) < MaxLinks
  /\ Commit(MarkBody(add_link(Self)), "add_link", NoArgs)

SetLink ==
  /\ LinkBudget
  /\ \E lnk \in DOMAIN links, yy \in {-1, 3}, page \in {-1, 1} :
       Commit(MarkBody(set_link(Self, lnk, yy, page)), "set_link", NoArgs)

LinkTo ==
  /\ LinkBudget
  /\ \E lnk \in [str : {FALSE}, id : DOMAIN links] \cup {[str |-> TRUE, id |-> 0]} :
       Commit(MarkBody(link(Self, 1, 2, 3, 1, lnk)), "link", NoArgs)

NextLink ==
  \/ AddPageAs
  \/ AddLink
  \/ SetLink
  \/ LinkTo
  \/ Close

InitLink ==
  /\ Init /\ settings.auto_page_break /\ settings.compress
  /\ header_impl = "noop" /\ footer_impl = "noop"
  /\ ttfont = NoTTFont

SpecLink == InitLink /\ [][NextLink]_vars

NextObj ==
  \/ AddPage
  \/ ImageMask
  \/ ImageMasked
  \/ Close

InitObj ==
  /\ Init /\ settings.auto_page_break /\ settings.compress /\ header_impl = footer_impl
  /\ ttfont = NoTTFont

SpecObj == InitObj /\ [][NextObj]_vars

\* ---------------------------------------------------------------- claims
\* the length kept with the buffer is the length of the buffer
BufLenIsLen == buflen = StrLen(buffer)

\* the length of every line of the buffer with its "\n", worked out once
LineLens == <<>> \o [j \in 1..Len(buffer) |-> LineLen(buffer[j]) + 1]

\* position in the buffer at which line j begins, lens being LineLens: the sum
\* of the lengths of the lines before it
Pos(lens, j) == BagCardinality(SubSeq(lens, 1, j - 1))

\* the largest of a non-empty set of line numbers
LastOf(S) == CHOOSE j \in S : \A m \in S : m <= j

\* the line that opens the cross-reference table written last: its free entry
XrefFree == LastOf({j \in 1..Len(buffer) : buffer[j].op = "xreffree"})

\* the lines of the cross-reference table written last: the entries that
\* follow its free entry
LastXref ==
  {i \in (XrefFree + 1)..Len(buffer) :
     \A m \in (XrefFree + 1)..i : buffer[m].op = "xrefentry"}

\* the lines that hold a token 'k 0 obj'
ObjTokens == {j \in 1..Len(buffer) : buffer[j].op = "obj"}

\* C1: after close(), the cross-reference table lists every object number
\* 1..n, and the offset listed for k is the position in the buffer at which
\* the token 'k 0 obj' begins, objects 1 and 2 included, with and without
\* compression of the page streams.  Entry number k of the table is the line
\* k lines after the free entry; the token of k is the one written last.
C1_XrefOffsets ==
  state = "TERMINATED" =>
    LET lens == LineLens
        free == XrefFree
        objs == ObjTokens
    IN /\ \A k \in 1..n : buffer[free + k].op = "xrefentry"
       /\ free + n = Len(buffer) \/ buffer[free + n + 1].op # "xrefentry"
       /\ \A k \in 1..n :
            /\ \E j \in objs : buffer[j].arg = <<k>>
            /\ buffer[free + k].arg =
                 <<Pos(lens, LastOf({j \in objs : buffer[j].arg = <<k>>}))>>

C1_Witness ==
  /\ state = "TERMINATED"
  /\ ~settings.compress
  /\ current_page = 2
  /\ n >= 8
  /\ DOMAIN images # {}
  /\ Cardinality(LastXref) = n

C1_WitnessCompressed ==
  /\ state = "TERMINATED"
  /\ settings.compress
  /\ current_page = 2
  /\ Cardinality(LastXref) = n

\* the lines of the buffer written by the serialisation that ran last
LastSer ==
  {j \in 1..Len(buffer) : \E i \in 1..j : /\ buffer[i].op = "pdfheader"
                                           /\ \A m \in (i + 1)..Len(buffer) : buffer[m].op # "pdfheader"}

\* the lines of the last serialisation that open a page object, and the
\* p-th of them
PageObjLines == {j \in LastSer : buffer[j].op = "obj" /\ buffer[j + 1].op = "pagedict"}
PageObjLine(p) == CHOOSE j \in PageObjLines : Cardinality({m \in PageObjLines : m <= j}) = p

\* the last line of the buffer written with operator op
LastLine(op) ==
  CHOOSE j \in 1..Len(buffer) :
    buffer[j].op = op /\ \A m \in (j + 1)..Len(buffer) : buffer[m].op # op

\* C2: after close(), /Count of the pages root is the number of pages
\* started, and /Kids lists exactly one page object per page, in page order.
C2_CountAndKids ==
  state = "TERMINATED" =>
    /\ buffer[LastLine("count")].arg = <<started>>
    /\ Cardinality(PageObjLines) = started
    /\ Len(buffer[LastLine("kids")].arg) = started
    /\ \A p \in 1..started :
         buffer[LastLine("kids")].arg[p] = buffer[PageObjLine(p)].arg[1]

\* the part of C2 the code keeps: /Count is the number of pages started
C2_Count ==
  state = "TERMINATED" => buffer[LastLine("count")].arg = <<started>>

\* the object numbers written to the buffer, with repetitions
ObjLines == {j \in 1..Len(buffer) : buffer[j].op = "obj"}

\* C3: after close(), the object numbers written to the buffer are exactly
\* 1..n, each once and with an offset recorded; page p has object 3+2(p-1)
\* for its dictionary and the next one for its content, the info dictionary
\* is object n-1, the catalog object n, and the trailer names /Size n+1,
\* /Root n and /Info n-1.
C3_ObjectNumbers ==
  state = "TERMINATED" =>
    /\ \A k \in 1..n : Cardinality({j \in ObjLines : buffer[j].arg = <<k>>}) = 1
    /\ \A j \in ObjLines : buffer[j].arg[1] \in 1..n
    /\ DOMAIN offsets = 1..n
    /\ \A p \in 1..current_page :
         LET j == PageObjLine(p)
             c == CHOOSE m \in LastSer : m > j /\ buffer[m].op = "obj"
                                         /\ \A q \in (j + 1)..(m - 1) : buffer[q].op # "obj"
         IN /\ buffer[j].arg = <<3 + 2 * (p - 1)>>
            /\ buffer[c].arg = <<3 + 2 * (p - 1) + 1>>
            /\ buffer[c + 1].op = "streamdict"
    /\ buffer[LastLine("producer") - 2].arg = <<n - 1>>
    /\ buffer[LastLine("catalog") - 2].arg = <<n>>
    /\ buffer[LastLine("size")].arg = <<n + 1>>
    /\ buffer[LastLine("root")].arg = <<n>>
    /\ buffer[LastLine("info")].arg = <<n - 1>>

\* the part of C3 the code keeps: the info dictionary, the catalog and the trailer
C3_Trailer ==
  state = "TERMINATED" =>
    /\ buffer[LastLine("producer") - 2] = [op |-> "obj", by |-> "doc", arg |-> <<n - 1>>]
    /\ buffer[LastLine("catalog") - 2] = [op |-> "obj", by |-> "doc", arg |-> <<n>>]
    /\ buffer[LastLine("size")].arg = <<n + 1>>
    /\ buffer[LastLine("root")].arg = <<n>>
    /\ buffer[LastLine("info")].arg = <<n - 1>>

\* C4: once the document is terminated, no call changes the buffer, the
\* pages, the offsets, the object counter or the state.
C4_TerminatedImmutable ==
  [][state = "TERMINATED" => UNCHANGED <<buffer, pages, offsets, n, state>>]_vars

\* the transitions of the state machine of the specification
AllowedTransitions ==
  { <<"UNSTARTED", "OPEN_IDLE">>, <<"OPEN_IDLE", "WRITING_PAGE">>,
    <<"WRITING_PAGE", "OPEN_IDLE">>, <<"OPEN_IDLE", "TERMINATED">> }

\* C5: every assignment that changes the document state is one of
\* Unstarted->OpenIdle, OpenIdle->WritingPage, WritingPage->OpenIdle and
\* OpenIdle->Terminated; Terminated is never left.
C5_StateMachine == hist \subseteq AllowedTransitions

\* the drawing methods behind check_page
Draws == {"text", "cell", "image", "insert_figure", "insert_line", "ln", "rotate"}

\* C6: a drawing call made while the state is not WritingPage raises an
\* error and appends nothing to a page's content or to the buffer.
C6_DrawOutsidePage ==
  [][(call' \in Draws /\ state # "WRITING_PAGE")
       => (raised' # "none" /\ UNCHANGED <<buffer, pages>>)]_vars

\* the part of C6 the code keeps: before the first add_page a drawing call
\* raises and appends nothing
C6_BeforeFirstPage ==
  [][(call' \in Draws /\ current_page = 0)
       => (raised' = "CatchAllError" /\ UNCHANGED <<buffer, pages>>)]_vars

\* C7: close() on a terminated document leaves buffer, object counter,
\* offsets, pages and state as they are, and does not run the footer again.
C7_SecondCloseNoOp ==
  [][(call' = "close" /\ state = "TERMINATED")
       => UNCHANGED <<buffer, n, offsets, pages, state, log>>]_vars

C7_Witness ==
  /\ call = "close"
  /\ at.state = "TERMINATED"
  /\ state = "TERMINATED"
  /\ footer_impl = "busy"
  /\ current_page = 2

\* the settings add_page is to hand back as it found them
PaintState ==
  <<settings.font_family, settings.font_style, settings.font_size_pt,
    settings.underline, settings.line_width, settings.draw_color,
    settings.fill_color, settings.text_color, settings.color_flag,
    settings.font_stretching>>

\* C8: when add_page returns, called by the client or by an automatic page
\* break, font family, style, size, underline, line width, the three
\* colours, the colour flag and the stretching are what they were before the
\* call, whatever header() and footer() set, also when no font was selected.
C8_SettingsRestored ==
  [][(started' > started /\ call' \in {"add_page", "cell"}) => PaintState' = PaintState]_vars

\* the part of C8 the code keeps: the settings are restored when a font was
\* selected before the call
C8_RestoredWithFont ==
  [][(started' > started /\ call' \in {"add_page", "cell"} /\ settings.font_family # "")
       => PaintState' = PaintState]_vars

\* the entries of the event log equal to e
LogAt(e) == {i \in 1..Len(log) : log[i] = e}

\* C9: for every page p, header() runs exactly once, right after p is opened
\* and before body content of p; footer() runs exactly once, after the body
\* content of p and before page p+1 is opened or the document serialised;
\* what footer() writes goes into the content of p, never into the buffer.
C9_HeaderFooterOnce ==
  /\ \A p \in 1..current_page :
       /\ Cardinality(LogAt(<<"open", p>>)) = 1
       /\ Cardinality(LogAt(<<"hdr", p>>)) = 1
       /\ Cardinality(LogAt(<<"ftr", p>>)) =
            (IF p < current_page \/ state = "TERMINATED" THEN 1 ELSE 0)
       /\ \A i \in LogAt(<<"open", p>>) : log[i + 1] = <<"hdr", p>>
       /\ \A i \in LogAt(<<"body", p>>) : \A j \in LogAt(<<"hdr", p>>) : j < i
       /\ \A i \in LogAt(<<"ftr", p>>) :
            /\ \A j \in LogAt(<<"body", p>>) \cup LogAt(<<"hdr", p>>) : j < i
            /\ i < Len(log)
            /\ log[i + 1] \in {<<"open", p + 1>>, <<"ser", 0>>}
  /\ \A i \in 1..Len(buffer) : buffer[i].by \notin {"hdr", "ftr"}
  /\ \A p \in 1..current_page :
       (footer_impl = "busy" /\ (p < current_page \/ state = "TERMINATED"))
         => pages[p].content[Len(pages[p].content)].by = "ftr"

\* the calls that place an element at the cursor
Flowing == {"cell", "image", "insert_figure"}

\* C10: cell(), and image() or insert() of a Figure without an explicit y,
\* start a new page before drawing if and only if y + h is beyond the page
\* break trigger and automatic page break is on; the element is then drawn
\* on the new page. A cell drawn by footer() never starts a page.
C10_PageBreak ==
  [][(call' \in Flowing /\ args'.flow /\ raised' = "none") =>
       /\ current_page' \in {current_page, current_page + 1}
       /\ (current_page' = current_page + 1) <=>
            (y + args'.h > settings.page_break_trigger /\ settings.auto_page_break)
       /\ current_page' = current_page + 1 =>
            /\ pages'[current_page'].content[Len(pages'[current_page'].content)].op
                 \in {"cell", "Do"}
            /\ \A i \in 1..Len(pages'[current_page].content) :
                 i > Len(pages[current_page].content)
                   => pages'[current_page].content[i].by = "ftr"
       /\ started' - started = current_page' - current_page]_vars

C10_Witness ==
  /\ call = "cell"
  /\ raised = "none"
  /\ at.state = "WRITING_PAGE"
  /\ current_page = at.page + 1
  /\ at.y + args.h > settings.page_break_trigger
  /\ at.y > Margin
  /\ footer_impl = "busy"

C10_WitnessOnTrigger ==
  /\ call \in {"image", "insert_figure"}
  /\ raised = "none"
  /\ at.y + args.h = settings.page_break_trigger
  /\ current_page = at.page

\* C11: after an automatic page break inside cell(), x and a non-zero word
\* spacing are what they were before the break; header() and footer() find
\* the word spacing 0; "0 Tw" is the last line of the old page before its
\* footer, and the spacing is issued again on the new page right after the
\* header and the settings restored after it
C11_BreakKeepsSpacing ==
  /\ \A e \in hook_ws : e[2] = 0
  /\ \A k \in 1..Len(breaks) :
       LET br == breaks[k]
           old == pages[br.page - 1].content
           new == pages[br.page].content
       IN /\ br.x1 = br.x0
          /\ br.ws1 = br.ws0
          /\ br.ws0 > 0 =>
               /\ \E i \in 1..Len(old) :
                    /\ old[i] = [op |-> "Tw", by |-> "body", arg |-> <<0>>]
                    /\ \A m \in 1..Len(old) : m > i <=> old[m].by = "ftr"
               /\ \E i \in 1..Len(new) :
                    /\ new[i] = [op |-> "Tw", by |-> "body", arg |-> <<br.ws0 * Scale>>]
                    /\ \A m \in 1..(i - 1) : new[m].by \in {"sys", "hdr"}
                    /\ \A m \in 1..Len(new) : new[m].by = "hdr" => m < i

\* a justified line of multi_cell has broken the page of a document whose
\* header() moves the cursor, and the footer wrote on the old page
C11_Witness ==
  \E k \in 1..Len(breaks) :
    /\ breaks[k].ws0 > 0
    /\ header_impl = "busy"
    /\ breaks[k].x0 = Margin
    /\ \E m \in 1..Len(pages[breaks[k].page - 1].content) :
         pages[breaks[k].page - 1].content[m].by = "ftr"

\* the sum of the glyph widths of a text
RECURSIVE GlyphWidth(_)
GlyphWidth(t) == IF t = <<>> THEN 0 ELSE char_width(Head(t)) + GlyphWidth(Tail(t))

\* the number of spaces of a text
Spaces(t) == Cardinality({i \in 1..Len(t) : t[i] = " "})

\* C13: a justified line of multi_cell that was broken at a space, with more
\* than one space counted, fills the column: the glyph width of the line plus
\* the word spacing for each space inside it is w - 2 * cell_margin (all
\* taken WsUnit * 1000 times); with one counted space, or none, the word
\* spacing of the line is 0
C13_JustifiedFills ==
  call = "multi_cell" /\ args.c.align = "J" =>
    \A k \in 1..Len(lines) :
      /\ lines[k].how = "wrap" /\ Spaces(lines[k].txt) >= 1 =>
           GlyphWidth(lines[k].txt) * lines[k].fs * WsUnit + Spaces(lines[k].txt) * lines[k].ws
             = (lines[k].w - 2 * CellMargin) * 1000 * WsUnit
      /\ lines[k].how = "wrap" /\ Spaces(lines[k].txt) = 0 => lines[k].ws = 0
      /\ lines[k].how = "cut" => lines[k].ws = 0

\* a drawn justified line with two spaces inside got a word spacing, and
\* another line of the same call, broken in the middle of a word, got none
C13_Witness ==
  /\ call = "multi_cell" /\ args.c.align = "J" /\ ~args.c.split_only
  /\ \E k \in 1..Len(lines) :
       lines[k].how = "wrap" /\ Spaces(lines[k].txt) = 2 /\ lines[k].ws > 0
  /\ \E k \in 1..Len(lines) : lines[k].how = "cut"

\* the text multi_cell was called with, without its "\r", and its length
\* without a final "\n"
TextIn == SelectSeq(args.c.txt, IsNotCR)
NbIn == IF Len(TextIn) > 0 /\ TextIn[Len(TextIn)] = NL THEN Len(TextIn) - 1 ELSE Len(TextIn)

\* the characters (counted from 0) at which line k of the call is too wide
\* for its column, no "\n" coming before
Overs(k) ==
  {o \in lines[k].j..(NbIn - 1) :
     /\ \A p \in lines[k].j..o : TextIn[p + 1] # NL
     /\ GlyphWidth(SubSeq(TextIn, lines[k].j + 1, o + 1)) * lines[k].fs
          > (lines[k].w - 2 * CellMargin) * 1000}
FirstOver(k) == CHOOSE o \in Overs(k) : \A p \in Overs(k) : o <= p

\* the spaces of line k seen when it gets too wide
SpacesSeen(k) == {p \in lines[k].j..FirstOver(k) : TextIn[p + 1] = " "}
LastSpace(k) == CHOOSE p \in SpacesSeen(k) : \A q \in SpacesSeen(k) : q <= p

\* C14: a line of multi_cell that gets too wide after a space was seen on it
\* ends at the last space seen: the line is the text before that space and
\* the next line starts right after it
C14_WrapAtLastSpace ==
  call = "multi_cell" =>
    \A k \in 1..Len(lines) :
      Overs(k) # {} /\ SpacesSeen(k) # {} =>
        /\ lines[k].txt = SubSeq(TextIn, lines[k].j + 1, LastSpace(k))
        /\ k < Len(lines)
        /\ lines[k + 1].j = LastSpace(k) + 1

\* a line was drawn that was wrapped at a space followed by the letters of
\* the word that did not fit, after an earlier space had been seen
C14_Witness ==
  /\ call = "multi_cell" /\ ~args.c.split_only
  /\ \E k \in 1..Len(lines) :
       /\ Overs(k) # {} /\ Cardinality(SpacesSeen(k)) >= 2
       /\ FirstOver(k) > LastSpace(k) + 1
       /\ lines[k].txt # <<>>

\* the lines the same call draws when it is made without split_only
DrawnLines ==
  multi_cell(Self, args'.c.width, args'.c.height, args'.c.txt, args'.c.border,
             args'.c.align, args'.c.fill, FALSE).lines

\* C15: multi_cell with split_only=True returns the lines in order, which
\* are the texts of the cells the call draws without split_only, and changes
\* none of the page contents, the buffer, the cursor, the last cell height,
\* the settings with the word spacing, the page count and the fonts
C15_SplitOnlyDrawsNothing ==
  [][call' = "multi_cell" /\ args'.c.split_only /\ raised' = "none" =>
       /\ pages' = pages /\ buffer' = buffer /\ state' = state
       /\ x' = x /\ y' = y /\ lasth' = lasth
       /\ settings' = settings
       /\ current_page' = current_page
       /\ fonts' = fonts /\ current_font' = current_font /\ font_size' = font_size
       /\ Len(ret') >= 1
       /\ \A k \in 1..Len(ret') :
            ret'[k] = SubSeq(SelectSeq(args'.c.txt, IsNotCR), lines'[k].j + 1,
                             lines'[k].j + Len(ret'[k]))
       /\ \A k \in 1..(Len(ret') - 1) : lines'[k].j + Len(ret'[k]) <= lines'[k + 1].j
       /\ current_page > 0 =>
            /\ Len(ret') = Len(DrawnLines)
            /\ \A k \in 1..Len(ret') : ret'[k] = DrawnLines[k].txt]_vars

\* a call with split_only on an open page returned a justified line, broken
\* at a space, and the rest of the text
C15_Witness ==
  /\ call = "multi_cell" /\ args.c.split_only /\ raised = "none"
  /\ current_page > 0
  /\ Len(ret) >= 2
  /\ lines[1].how = "wrap" /\ lines[1].ws > 0

\* the border multi_cell was called with, as a border string
BorderIn == IF args.c.border = 1 THEN SideL + SideT + SideR + SideB ELSE args.c.border

\* the cells the body of the document has drawn, page after page
IsBodyCell(l) == l.op = "cell" /\ l.by = "body"
RECURSIVE BodyCells(_)
BodyCells(p) ==
  IF p = 0 THEN <<>> ELSE BodyCells(p - 1) \o SelectSeq(pages[p].content, IsBodyCell)

\* the border of the cell drawn for line k of the call, the cells of the
\* call being the last ones drawn
DrawnBorder(k) == BodyCells(Len(pages))[Len(BodyCells(Len(pages))) - Len(lines) + k].arg[6]

\* C16: of the lines multi_cell produces with a border, the first alone has
\* the top side, the last alone has the bottom side, and every line has the
\* left and the right side of the border, the border 1 being the border
\* 'LTRB'; the cells are drawn with these borders
C16_BorderSides ==
  call = "multi_cell" /\ raised = "none" /\ args.c.border # 0 =>
    /\ Len(lines) >= 1
    /\ \A k \in 1..Len(lines) :
         /\ HasSide(lines[k].b, SideT) <=> (HasSide(BorderIn, SideT) /\ k = 1)
         /\ HasSide(lines[k].b, SideB) <=> (HasSide(BorderIn, SideB) /\ k = Len(lines))
         /\ HasSide(lines[k].b, SideL) <=> HasSide(BorderIn, SideL)
         /\ HasSide(lines[k].b, SideR) <=> HasSide(BorderIn, SideR)
         /\ ~args.c.split_only => DrawnBorder(k) = lines[k].b

\* borders were drawn for a text of one line, for a text that ends in a
\* forced break and for a text of several lines with the border 1
C16_Witness ==
  /\ call = "multi_cell" /\ raised = "none" /\ ~args.c.split_only
  /\ args.c.border = 1 /\ args.c.txt = TxtCR
  /\ Len(lines) >= 2
  /\ DrawnBorder(1) = SideL + SideR + SideT
  /\ DrawnBorder(Len(lines)) = SideL + SideR + SideB

\* a text of a single line was drawn with the top and the bottom of its border
C16_WitnessOneLine ==
  /\ call = "multi_cell" /\ raised = "none" /\ ~args.c.split_only
  /\ args.c.border = 1
  /\ Len(lines) = 1
  /\ DrawnBorder(1) = SideL + SideR + SideT + SideB

\* the width of the cell of the call: 0 stands for the width up to the
\* right margin
CellWidth == IF args'.w = 0 THEN settings.width_unit - Margin - x ELSE args'.w

\* the ordinate the cell of the call was drawn at: the one the automatic
\* page break left, if the cell broke the page
CellY == IF breaks' # <<>> THEN breaks'[1].y1 ELSE y

\* C17: after cell(), with ln = 0 x has advanced by the width of the cell
\* and y is the ordinate of the cell; with ln > 0 y has advanced by h, and x
\* is the left margin for ln = 1 and is unchanged for ln = 2
C17_CursorAfterCell ==
  [][call' = "cell" /\ raised' = "none" =>
       /\ args'.ln = 0 => x' = x + CellWidth /\ y' = CellY
       /\ args'.ln > 0 => y' = CellY + args'.h
       /\ args'.ln = 1 => x' = Margin
       /\ args'.ln = 2 => x' = x]_vars

\* C17 as stated: with any ln > 0, x is reset to the left margin
C17_AsStated ==
  [][call' = "cell" /\ raised' = "none" =>
       /\ args'.ln = 0 => x' = x + CellWidth /\ y' = CellY
       /\ args'.ln > 0 => y' = CellY + args'.h /\ x' = Margin]_vars

\* a cell with ln = 2 was drawn away from the left margin, on the page its
\* own page break began
C17_Witness ==
  /\ call = "cell" /\ raised = "none" /\ args.ln = 2
  /\ x # Margin
  /\ breaks # <<>>

\* the code points the serialisation retains
Retained ==
  {c \in 1..MaxUni : (c <= 255 \/ c \in ttfont.subset) /\ CwAt(ttfont, c) # 0}

\* the width a retained code point is serialised with
WidthOf(c) == IF CwAt(ttfont, c) = 65535 THEN 0 ELSE CwAt(ttfont, c)

\* the pairs <<code point, width>> a /W array t stands for, read from its
\* element i on: 'start end width' and 'start [ w0 w1 ... ]'
RECURSIVE Expand(_, _)
Expand(t, i) ==
  IF i > Len(t) THEN <<>>
  ELSE IF t[i + 1] = OpenList
  THEN LET j == CHOOSE j \in (i + 2)..Len(t) :
                  t[j] = CloseList /\ \A m \in (i + 2)..(j - 1) : t[m] # CloseList
       IN [q \in 1..(j - i - 2) |-> <<t[i] + q - 1, t[i + 1 + q]>>] \o Expand(t, j + 1)
  ELSE [q \in 1..(t[i + 1] - t[i] + 1) |-> <<t[i] + q - 1, t[i + 2]>>] \o Expand(t, i + 3)

\* the pairs of t give every retained code point once, with its width, and
\* no other code point
RoundTrip(t) ==
  LET e == Expand(t, 1)
  IN /\ \A c \in Retained : \E q \in 1..Len(e) : e[q] = <<c, WidthOf(c)>>
     /\ \A q \in 1..Len(e) : e[q][1] \in Retained
     /\ \A q, m \in 1..Len(e) : e[q][1] = e[m][1] => q = m

\* C12: the ranges _putTTfontwidths writes, expanded, give every retained
\* code point exactly once, with its width (65535 read as 0), and nothing
\* else; the same holds for the ranges as they are before the merging pass
C12_WidthsRoundTrip ==
  call = "_putTTfontwidths" =>
    /\ buffer[Len(buffer)].op = "W"
    /\ RoundTrip(buffer[Len(buffer)].arg)
    /\ RoundTrip(tt_array(tt_ranges(ttfont, MaxUni).range))

\* the widths were serialised as a range of one width and a list of
\* widths, one of them a merged range, for a font with a glyph of width 0
\* and used and unused code points above 255
C12_Witness ==
  /\ call = "_putTTfontwidths"
  /\ \E i \in 1..Len(buffer[Len(buffer)].arg) : buffer[Len(buffer)].arg[i] = OpenList
  /\ tt_merged(tt_ranges(ttfont, MaxUni)) # tt_ranges(ttfont, MaxUni).range
  /\ Len(Expand(buffer[Len(buffer)].arg, 1)) >= 5
  /\ \E c \in Retained : CwAt(ttfont, c) = 65535
  /\ \E c \in Retained : c > 255
  /\ \E c \in FirstCid..MaxUni : c > 255 /\ c \notin ttfont.subset /\ CwAt(ttfont, c) # 0

\* the calls that place an image
Placing == {"image", "insert_figure"}

\* the last line handed to _out in a document
LastOut(st, pgs, p, buf) ==
  IF st = "WRITING_PAGE" THEN pgs[p].content[Len(pgs[p].content)] ELSE buf[Len(buf)]

\* C18: the index of a registered image never changes, no two names share
\* an index, and an image placed by image() or by insert() of a Figure is
\* drawn under the index of its name, which for a name already registered
\* is the index given at its first use
C18_IndexKept ==
  [][/\ \A nm \in DOMAIN images :
          nm \in DOMAIN images' /\ images'[nm].i = images[nm].i
     /\ \A na, nb \in DOMAIN images' : na # nb => images'[na].i # images'[nb].i
     /\ (call' \in Placing /\ raised' = "none" /\ ~args'.is_mask) =>
          /\ LastOut(state', pages', current_page', buffer').op = "Do"
          /\ LastOut(state', pages', current_page', buffer').arg[1] = images'[args'.name].i
          /\ args'.known =>
               LastOut(state', pages', current_page', buffer').arg[1] = images[args'.name].i]_vars

\* a Figure of the first of two registered names was inserted again
C18_Witness ==
  /\ call = "insert_figure"
  /\ raised = "none"
  /\ args.known
  /\ ~args.is_mask
  /\ Cardinality(DOMAIN images) = 2
  /\ images[args.name].i = 1
  /\ LastOut(state, pages, current_page, buffer).op = "Do"

\* C19: placing a name that is already registered, through image() or
\* through a new Figure passed to insert(), does not parse the file
C19_ParsedOnce ==
  [][(call' \in Placing /\ args'.known) => parsed' = <<>>]_vars

\* C19, image() alone: a registered name is not parsed again
C19_ImageParsedOnce ==
  [][(call' = "image" /\ args'.known) => parsed' = <<>>]_vars

\* C20: a call that places a mask whose colour space is not DeviceGray
\* raises, whether the name is registered or not, and leaves the registry
\* as it was
C20_MaskRefused ==
  [][(call' \in Placing /\ args'.is_mask /\ ParseImage(args'.name).cs # "DeviceGray") =>
       /\ raised' # "none"
       /\ images' = images]_vars

\* C20, the first use of a name: the mask is refused and not registered
C20_FirstUseRefused ==
  [][(call' \in Placing /\ args'.is_mask /\ ~args'.known
        /\ ParseImage(args'.name).cs # "DeviceGray") =>
       /\ raised' # "none"
       /\ images' = images]_vars

\* C21: output() with neither a name nor a destination code raises and
\* hands the buffer to no destination; output() with a name or with
\* destination 'S' closes a document that is not Terminated
C21_OutputDestination ==
  [][call' = "output" =>
       /\ (args'.name = "" /\ args'.dest = "") => (raised' # "none" /\ sink' = "none")
       /\ ((args'.name # "" \/ args'.dest = "S") /\ state # "TERMINATED")
            => state' = "TERMINATED"]_vars

\* C21, the second half alone: output() closes a document that is not
\* Terminated before the destination is looked at, and only an unknown
\* destination code raises
C21_ClosesFirst ==
  [][call' = "output" =>
       /\ state' = "TERMINATED"
       /\ raised' # "none" <=> args'.dest = "X"
       /\ raised' # "none" => sink' = "none"]_vars

\* the last k lines handed to _out in a document, oldest first
LastOuts(st, pgs, p, buf, k) ==
  LET c == IF st = "WRITING_PAGE" THEN pgs[p].content ELSE buf
  IN SubSeq(c, Len(c) - k + 1, Len(c))

\* C22: insert(DashedLine(..., dash, space)) appends the dash pattern for
\* (dash, space), the stroked line and a reset of the pattern to solid,
\* '[] 0 d', in this order
C22_DashReset ==
  [][(call' = "insert_dashed" /\ raised' = "none") =>
       LET o == LastOuts(state', pages', current_page', buffer', 3)
       IN /\ o[1].op = "d" /\ o[1].arg = set_dash(args'.dash, args'.space)[2]
          /\ o[2].op = "line"
          /\ o[3].op = "d" /\ o[3].arg = <<>>]_vars

\* C22, what holds: the three lines are written in this order, and the
\* third one sets the pattern of one unit on, one unit off
C22_DashOrder ==
  [][(call' = "insert_dashed" /\ raised' = "none") =>
       LET o == LastOuts(state', pages', current_page', buffer', 3)
       IN /\ o[1].op = "d" /\ o[1].arg = set_dash(args'.dash, args'.space)[2]
          /\ o[2].op = "line"
          /\ o[3].op = "d" /\ o[3].arg = <<Scale, Scale>>]_vars

\* a line is stroked on a page after a dashed line of lengths 3 and 2
C22_StrokeAfterDashed ==
  /\ call = "insert_line"
  /\ raised = "none"
  /\ state = "WRITING_PAGE"
  /\ LET o == LastOuts(state, pages, current_page, buffer, 4)
     IN o[1] = [op |-> "d", by |-> "body", arg |-> <<3 * Scale, 2 * Scale>>]
          /\ o[2].op = "line" /\ o[3].op = "d" /\ o[4].op = "line"

TooWide(t, k) == GlyphWidth(t) * lines[k].fs > (lines[k].w - 2 * CellMargin) * 1000

\* C24: multi_cell returns for every text and every column width, after at
\* most one line for each character and the last chunk; each line starts at
\* least one character after the line before; a line that got too wide
\* with no space seen ends before the character that did not fit, which
\* starts the next line, or holds that character alone when the line would
\* be empty otherwise
C24_ForcedBreakAdvances ==
  (call = "multi_cell" /\ raised = "none") =>
    /\ Len(lines) >= 1
    /\ Len(lines) <= NbIn + 1
    /\ lines[Len(lines)].how = "last"
    /\ \A k \in 1..(Len(lines) - 1) :
         /\ lines[k + 1].j > lines[k].j
         /\ lines[k].how = "cut" =>
              /\ Spaces(lines[k].txt) = 0
              /\ Len(lines[k].txt) >= 1
              /\ lines[k + 1].j = lines[k].j + Len(lines[k].txt)
              /\ lines[k].txt = SubSeq(TextIn, lines[k].j + 1, lines[k + 1].j)
              /\ \/ Len(lines[k].txt) = 1 /\ TooWide(lines[k].txt, k)
                 \/ /\ ~TooWide(lines[k].txt, k)
                    /\ TooWide(Append(lines[k].txt, TextIn[lines[k + 1].j + 1]), k)

\* a text without a space was split in a column with no room for a glyph,
\* one character a line, and another one in a column with room for two
C24_Witness ==
  /\ call = "multi_cell"
  /\ raised = "none"
  /\ args.c.width = 2
  /\ TextIn = <<"a", "a", "a">>
  /\ Len(lines) = 4
  /\ \A k \in 1..3 : lines[k].how = "cut" /\ lines[k].txt = <<"a">>
  /\ lines[4].txt = <<>>

\* what was dropped at the end of a line
Dropped(how) == IF how = "nl" THEN <<NL>> ELSE IF how = "wrap" THEN <<" ">> ELSE <<>>

\* the lines from line k on, each followed by what was dropped after it
RECURSIVE Rejoin(_)
Rejoin(k) ==
  IF k > Len(lines) THEN <<>>
  ELSE lines[k].txt \o Dropped(lines[k].how) \o Rejoin(k + 1)

\* C30: the lines of multi_cell, joined with the space or newline dropped
\* at each break put back, are the text without its carriage returns and
\* without one trailing newline, and every line of more than one character
\* is not wider than the column
C30_LinesRejoin ==
  (call = "multi_cell" /\ raised = "none") =>
    /\ Rejoin(1) = SubSeq(TextIn, 1, NbIn)
    /\ \A k \in 1..Len(lines) : Len(lines[k].txt) > 1 => ~TooWide(lines[k].txt, k)

\* a text with a carriage return and a trailing newline was split at a
\* space, at a newline and by force
C30_Witness ==
  /\ call = "multi_cell"
  /\ raised = "none"
  /\ \E k \in 1..Len(args.c.txt) : args.c.txt[k] = CR
  /\ Len(TextIn) > NbIn
  /\ \E k \in 1..Len(lines) : lines[k].how = "wrap"
  /\ \E k \in 1..Len(lines) : lines[k].how = "cut"

\* the begin and end tokens of the objects among the lines a call appended
\* to the buffer
IsObjToken(l) == l.op \in {"obj", "endobj"}
NewObjTokens(old, new) == SelectSeq(SubSeq(new, Len(old) + 1, Len(new)), IsObjToken)

\* C25: the objects close() writes are 'n 0 obj', body, 'endobj' one after
\* the other, none begun inside another; 'endobj' is missing exactly for an
\* object whose body raised, which is then the last one written; close()
\* then raises and the document is not Terminated
C25_ObjectsAtomic ==
  [][call' = "close" =>
       LET t == NewObjTokens(buffer, buffer')
       IN /\ \A k \in 1..Len(t) : t[k].op = (IF k % 2 = 1 THEN "obj" ELSE "endobj")
          /\ (Len(t) % 2 = 1) <=> ret' = <<"body">>
          /\ ret' = <<"body">> => raised' # "none"
          /\ raised' # "none" => state' # "TERMINATED"
          /\ (raised' = "none" /\ state # "TERMINATED") => state' = "TERMINATED"]_vars

\* close() raised in the body of the image object, after the objects of the
\* page and of the mask were written
C25_Witness ==
  /\ call = "close"
  /\ raised = "KeyError"
  /\ ret = <<"body">>
  /\ state = "OPEN_IDLE"
  /\ buffer[Len(buffer)].op = "height"
  /\ Cardinality(DOMAIN images) = 2
  /\ \E k \in 1..Len(buffer) : buffer[k].op = "endobj"

\* a document whose image has the mask registered before it was closed
C25_WitnessMasked ==
  /\ call = "close"
  /\ raised = "none"
  /\ state = "TERMINATED"
  /\ \E k \in 1..Len(buffer) : buffer[k].op = "smask"

\* the colour in effect in a content stream for the operator op ("RG" for
\* strokes, "rg" for fills): the argument of the last such line, black when
\* there is none
RECURSIVE ColourInEffect(_, _, _)
ColourInEffect(content, op, k) ==
  IF k = 0 THEN ColorInit
  ELSE IF content[k].op = op THEN content[k].arg[1]
  ELSE ColourInEffect(content, op, k - 1)

StrokeOn(pg) == ColourInEffect(pg.content, "RG", Len(pg.content))
FillOn(pg) == ColourInEffect(pg.content, "rg", Len(pg.content))

\* C27: once add_page has returned, the stroke and fill colours in effect
\* in the content of the new page are settings.draw_color and
\* settings.fill_color, whatever colours header() set
C27_ColoursRestored ==
  [][(call' = "add_page" /\ raised' = "none") =>
       /\ StrokeOn(pages'[current_page']) = settings'.draw_color
       /\ FillOn(pages'[current_page']) = settings'.fill_color]_vars

\* C27, what holds: add_page leaves settings.draw_color and
\* settings.fill_color as it found them, and the colours in effect on the
\* new page are these unless header() wrote a colour and the colour to
\* restore is the initial black, which set_font_settings never writes
C27_ColoursRestoredUnlessBlack ==
  [][(call' = "add_page" /\ raised' = "none") =>
       /\ settings'.draw_color = settings.draw_color
       /\ settings'.fill_color = settings.fill_color
       /\ (header_impl = "noop" \/ settings.draw_color # ColorInit) =>
             StrokeOn(pages'[current_page']) = settings'.draw_color
       /\ (header_impl = "noop" \/ settings.fill_color # ColorInit) =>
             FillOn(pages'[current_page']) = settings'.fill_color]_vars

\* a page begun with a colour chosen by the client, after a header that
\* set its own: the client's colour is in effect again
C27_WitnessRestored ==
  /\ call = "add_page"
  /\ raised = "none"
  /\ header_impl = "busy"
  /\ settings.draw_color = 1
  /\ StrokeOn(pages[current_page]) = 1

\* a page begun with the initial black, after a header that set a colour:
\* the header's colour stays in effect
C27_WitnessHeaderColour ==
  /\ call = "add_page"
  /\ raised = "none"
  /\ header_impl = "busy"
  /\ settings.draw_color = ColorInit
  /\ StrokeOn(pages[current_page]) = 2

\* the lines a call appended to the buffer
NewLines(old, new) == SubSeq(new, Len(old) + 1, Len(new))

\* the additional fonts of the document that name a font file
WithFile(fs) ==
  { key \in DOMAIN fs : fs[key].type \in {"Type1", "TrueType"} /\ fs[key].file # "" }

\* C26: for every Type1 or TrueType font registered with a font file,
\* close() writes exactly one font-file stream object, after the encoding
\* objects and before the font objects, and the descriptor of the font
\* refers to the number of that object
C26_FontFileEmbedded ==
  [][(call' = "close" /\ state # "TERMINATED") =>
       LET new == NewLines(buffer, buffer')
       IN /\ Cardinality({ k \in 1..Len(new) : new[k].op = "fontfile" })
               = Cardinality({ fonts[key].file : key \in WithFile(fonts) })
          /\ \A key \in WithFile(fonts) :
               \E k \in 2..Len(new) :
                 /\ new[k].op = "fontfile" /\ new[k - 1].op = "obj"
                 /\ \A j \in 1..Len(new) : new[j].op = "encodingdiff" => j < k
                 /\ \A j \in 1..Len(new) : new[j].op = "fontdict" => k < j
                 /\ \E j \in 2..Len(new) :
                      /\ new[j - 1].op = "obj"
                      /\ new[j - 1].arg = <<fonts'[key].n + 2>>
                      /\ new[j].op \in {"descriptorfile", "descriptorfile2"}
                      /\ new[j].arg = new[k - 1].arg]_vars

\* C26, what holds: close() writes no font-file stream object at all; it
\* raises KeyError in the first descriptor of a font that names a file and
\* leaves the document unterminated, and for a document without such a font
\* it writes one encoding object for each encoding difference, before the
\* font objects, each font with a difference referring to its encoding
C26_FontFileMissing ==
  [][(call' = "close" /\ state # "TERMINATED") =>
       LET new == NewLines(buffer, buffer')
       IN /\ \A k \in 1..Len(new) : new[k].op # "fontfile"
          /\ WithFile(fonts) # {} =>
               /\ raised' = "KeyError" /\ state' # "TERMINATED"
               /\ new[Len(new)].op = "obj"
          /\ WithFile(fonts) = {} =>
               /\ raised' = "none" /\ state' = "TERMINATED"
               /\ Cardinality({ k \in 1..Len(new) : new[k].op = "encodingdiff" }) = Len(diffs)
               /\ \A j, k \in 1..Len(new) :
                    (new[j].op = "encodingdiff" /\ new[k].op = "fontdict") => j < k
               /\ \A k \in 2..Len(new) :
                    new[k].op = "encodingref" =>
                      \E j \in 2..Len(new) :
                        /\ new[j].op = "encodingdiff"
                        /\ new[j - 1].op = "obj"
                        /\ new[j - 1].arg = new[k].arg]_vars

\* close() raised in the descriptor of a font registered with a font file,
\* after the objects of the font and of its widths
C26_WitnessRaised ==
  /\ call = "close"
  /\ raised = "KeyError"
  /\ state = "OPEN_IDLE"
  /\ WithFile(fonts) # {}
  /\ \E k \in 1..Len(font_files) : font_files[k].name = "brush.z"
  /\ \E k \in 1..Len(buffer) : buffer[k].op = "widths"

\* a document closed with two fonts without font file that have different
\* encoding differences
C26_WitnessEncodings ==
  /\ call = "close"
  /\ state = "TERMINATED"
  /\ Len(diffs) = 2
  /\ Cardinality({ k \in 1..Len(buffer) : buffer[k].op = "encodingref" }) = 2

\* the pages that have link areas, among the pages of the document
LinkedPages(pl, nb) == { p \in DOMAIN pl : p \in 1..nb }

\* the line of the annotations of page p among the lines new: the one in
\* the object 3 + 2 (p - 1), the page dictionary of p
IsAnnotsOf(new, j, p) ==
  /\ new[j].op = "annots"
  /\ \E i \in 1..(j - 1) :
       /\ new[i].op = "obj" /\ new[i].arg = <<3 + 2 * (p - 1)>>
       /\ \A m \in (i + 1)..(j - 1) : new[m].op # "obj"

AnnotsOf(new, p) == new[CHOOSE j \in 1..Len(new) : IsAnnotsOf(new, j, p)].arg

\* the object and the ordinate written as /Dest of the k-th annotation
DestObj(a, k) == a[6 * (k - 1) + 5]
DestY(a, k) == a[6 * (k - 1) + 6]

\* C28: every internal-link annotation written by the close() that
\* serialises the document for the first time names as /Dest
\* the page dictionary of an existing page, object 3 + 2 (p - 1) for a page
\* p of the document, also for a link whose destination was never set or
\* was set before any page existed
C28_DestIsPage ==
  [][(call' = "close" /\ buffer = <<>> /\ raised' = "none") =>
       LET new == NewLines(buffer, buffer')
       IN \A p \in LinkedPages(page_links, current_page') :
            /\ \E j \in 1..Len(new) : IsAnnotsOf(new, j, p)
            /\ \A k \in 1..Len(page_links[p]) :
                 ~page_links[p][k][5].str =>
                   DestObj(AnnotsOf(new, p), k)
                     \in { 3 + 2 * (q - 1) : q \in 1..current_page' }]_vars

\* C28, what holds: the /Dest of an internal link is object 1 + 2 P for the
\* page number P kept for the link, which is the page dictionary of page P
\* when P is a page of the document and object 1, the root of the page
\* tree, for a link never set or set before any page existed
C28_DestOfLink ==
  [][(call' = "close" /\ buffer = <<>> /\ raised' = "none") =>
       LET new == NewLines(buffer, buffer')
       IN \A p \in LinkedPages(page_links, current_page') :
            /\ \E j \in 1..Len(new) : IsAnnotsOf(new, j, p)
            /\ \A k \in 1..Len(page_links[p]) :
                 ~page_links[p][k][5].str =>
                   LET P == links[page_links[p][k][5].id][1]
                   IN /\ DestObj(AnnotsOf(new, p), k) = 1 + 2 * P
                      /\ P = 0 => DestObj(AnnotsOf(new, p), k) = 1]_vars

\* a document closed with a link area for a link that was never set
C28_WitnessUnset ==
  /\ call = "close"
  /\ state = "TERMINATED"
  /\ \E p \in LinkedPages(page_links, current_page) :
       \E k \in 1..Len(page_links[p]) :
         /\ ~page_links[p][k][5].str
         /\ links[page_links[p][k][5].id] = <<0, 0>>
  /\ \E j \in 1..Len(buffer) : buffer[j].op = "annots" /\ buffer[j].arg[5] = 1

\* a document closed with a link area for a link set on its first page
C28_WitnessSet ==
  /\ call = "close"
  /\ state = "TERMINATED"
  /\ \E j \in 1..Len(buffer) : buffer[j].op = "annots" /\ buffer[j].arg[5] = 3

\* C29: the ordinate written in the /Dest of an internal link is the height
\* of the page in points less the destination y times the scale, the flip
\* link() applies to the rectangle, on portrait and on landscape pages; the
\* page is the one that holds the link area or the one the link leads to
C29_DestFlipsHeight ==
  [][(call' = "close" /\ buffer = <<>> /\ raised' = "none") =>
       LET new == NewLines(buffer, buffer')
       IN \A p \in LinkedPages(page_links, current_page') :
            /\ \E j \in 1..Len(new) : IsAnnotsOf(new, j, p)
            /\ \A k \in 1..Len(page_links[p]) :
                 ~page_links[p][k][5].str =>
                   LET l == links[page_links[p][k][5].id]
                   IN \/ DestY(AnnotsOf(new, p), k) = pages'[p].h_pt - l[2] * Scale
                      \/ /\ l[1] \in 1..current_page'
                         /\ DestY(AnnotsOf(new, p), k) = pages'[l[1]].h_pt - l[2] * Scale]_vars

\* C29, what holds: the ordinate of /Dest is the width in points of the
\* page that holds the link area less the destination y times the scale,
\* while the rectangle of the area is flipped against the height of that page
C29_DestFlipsWidth ==
  [][(call' = "close" /\ buffer = <<>> /\ raised' = "none") =>
       LET new == NewLines(buffer, buffer')
       IN \A p \in LinkedPages(page_links, current_page') :
            /\ \E j \in 1..Len(new) : IsAnnotsOf(new, j, p)
            /\ \A k \in 1..Len(page_links[p]) :
                 /\ AnnotsOf(new, p)[6 * (k - 1) + 2] = pages'[p].h_pt - 2 * Scale
                 /\ ~page_links[p][k][5].str =>
                      DestY(AnnotsOf(new, p), k)
                        = pages'[p].w_pt - links[page_links[p][k][5].id][2] * Scale]_vars

\* a document closed with a link area on a landscape page, for a link set
\* to an ordinate of that page
C29_WitnessLandscape ==
  /\ call = "close"
  /\ state = "TERMINATED"
  /\ current_page = 1
  /\ pages[1].w_pt > pages[1].h_pt
  /\ 1 \in DOMAIN page_links
  /\ ~page_links[1][1][5].str
  /\ links[page_links[1][1][5].id] = <<1, 3>>
  /\ \E j \in 1..Len(buffer) :
       buffer[j].op = "annots" /\ buffer[j].arg[6] = pages[1].w_pt - 3 * Scale

====
